---- MODULE Spec2Model ----
(***************************************************************************)
(* A model of the fsearch server (fsearch/server.py), its search           *)
(* algorithms (fsearch/algorithms.py) and the loaders it relies on         *)
(* (fsearch/utils.py, fsearch/config.py).                                  *)
(*                                                                         *)
(* A Python str is a sequence of code points, a bytes object a sequence of *)
(* integers in 0..255.                                                     *)
(***************************************************************************)
EXTENDS Integers, Sequences, FiniteSets, TLC

(***************************************************************************)
(* Bounds of the model.                                                    *)
(***************************************************************************)
\* longest corpus text of the search specification
MaxTextLen == 4
\* longest pattern of the search specification
MaxPatLen == 3
\* number of connections the accept loop accepts in one run
MaxConns == 2
\* the largest argument max_lines given to read_file
MaxHint == 3

(***************************************************************************)
(* Characters.                                                             *)
(***************************************************************************)
\* "\n"
NL == 10
\* "\\"
Backslash == 92
\* "\x00"
NUL == 0
\* the characters texts and patterns are built from: "a", "b", "\n"
Alphabet == {97, 98, NL}

\* all strings over Alphabet of length at most n
StringsUpTo(n) == UNION {[1..k -> Alphabet] : k \in 0..n}

(***************************************************************************)
(* str.split("\n"): the lines of a text.  The text without any newline is  *)
(* one line, also when it is empty.                                        *)
(***************************************************************************)
RECURSIVE split(_)
split(text) ==
    IF \A i \in DOMAIN text : text[i] # NL
    THEN <<text>>
    ELSE LET k == CHOOSE i \in DOMAIN text :
                      text[i] = NL /\ \A j \in 1..(i - 1) : text[j] # NL
         IN  <<SubSeq(text, 1, k - 1)>> \o split(SubSeq(text, k + 1, Len(text)))

(***************************************************************************)
(* native_search: compare every line with the pattern.                     *)
(***************************************************************************)
native_search(text, pattern) ==
    LET lines == split(text)
    IN  \E i \in DOMAIN lines : lines[i] = pattern

(***************************************************************************)
(* regex_search: re.compile(f"^{re.escape(pattern)}$", re.MULTILINE)       *)
(* and regex.search(text).                                                 *)
(***************************************************************************)
\* the characters re.escape puts a backslash in front of:
\* ( ) [ ] { } ? * + - | ^ $ \ . & ~ # space \t \n \r \v \f
SpecialChars == {40, 41, 91, 93, 123, 125, 63, 42, 43, 45, 124, 94, 36, 92,
                 46, 38, 126, 35, 32, 9, 10, 13, 11, 12}

\* re.escape escapes character by character; the pattern is escaped in two
\* halves, so that a pattern of max_payload characters takes few nested
\* steps
RECURSIVE re_escape(_)
re_escape(pattern) ==
    IF pattern = <<>> THEN <<>>
    ELSE IF Len(pattern) = 1
    THEN (IF pattern[1] \in SpecialChars
          THEN <<Backslash, pattern[1]>>
          ELSE pattern)
    ELSE LET m == Len(pattern) \div 2
         IN  re_escape(SubSeq(pattern, 1, m))
                 \o re_escape(SubSeq(pattern, m + 1, Len(pattern)))

\* the literals the compiled expression matches: a backslash followed by a
\* special character stands for that character, any other character of the
\* escaped pattern stands for itself
\* an expression of more than two characters is read in two parts, cut
\* after the character in the middle, or one further when that character
\* is a backslash that escapes the next one (it ends an odd run of
\* backslashes)
RECURSIVE re_literals(_)
re_literals(escaped) ==
    IF escaped = <<>> THEN <<>>
    ELSE IF Len(escaped) <= 2
    THEN (IF Head(escaped) = Backslash
          THEN <<escaped[2]>> \o re_literals(SubSeq(escaped, 3, Len(escaped)))
          ELSE <<Head(escaped)>> \o re_literals(Tail(escaped)))
    ELSE LET m == Len(escaped) \div 2
             run == Cardinality({j \in 1..m :
                        \A i \in j..m : escaped[i] = Backslash})
             k == IF run % 2 = 0 THEN m ELSE m + 1
         IN  re_literals(SubSeq(escaped, 1, k))
                 \o re_literals(SubSeq(escaped, k + 1, Len(escaped)))

\* "^" under re.MULTILINE: at the start of the text and after every newline
AtLineStart(text, i) == i = 0 \/ text[i] = NL
\* "$" under re.MULTILINE: at the end of the text and before every newline
AtLineEnd(text, j) == j = Len(text) \/ text[j + 1] = NL

regex_search(text, pattern) ==
    LET lits == re_literals(re_escape(pattern))
        m == Len(lits)
        n == Len(text)
    IN  \E i \in 0..(n - m) :
            /\ AtLineStart(text, i)
            /\ SubSeq(text, i + 1, i + m) = lits
            /\ AtLineEnd(text, i + m)

(***************************************************************************)
(* rabin_karp_search.                                                      *)
(***************************************************************************)
prime == 101

\* for i in range(m): h = prime * h + ord(s[i])
RECURSIVE rk_hash(_, _)
rk_hash(s, h) ==
    IF s = <<>> THEN h ELSE rk_hash(Tail(s), prime * h + Head(s))

rabin_karp_search(text, pattern) ==
    IF pattern = <<>> \/ text = <<>> THEN FALSE
    ELSE LET m == Len(pattern)
             pattern_hash == rk_hash(pattern, 0)
             lines == split(text)
         IN  \E i \in DOMAIN lines :
                 /\ Len(lines[i]) = m
                 /\ pattern_hash = rk_hash(lines[i], 0)
                 /\ lines[i] = pattern

(***************************************************************************)
(* kmp_search and compute_lps.  The loops of the source are 0-based; i, j  *)
(* and length keep the values they have in the source, a sequence is read  *)
(* at index + 1.                                                           *)
(***************************************************************************)
RECURSIVE lps_loop(_, _, _, _)
lps_loop(pattern, i, length, lps) ==
    IF ~(i < Len(pattern)) THEN lps
    ELSE IF pattern[i + 1] = pattern[length + 1]
         THEN lps_loop(pattern, i + 1, length + 1,
                       [lps EXCEPT ![i + 1] = length + 1])
         ELSE IF length # 0
              THEN lps_loop(pattern, i, lps[length], lps)
              ELSE lps_loop(pattern, i + 1, length, [lps EXCEPT ![i + 1] = 0])

compute_lps(pattern) ==
    lps_loop(pattern, 1, 0, [k \in 1..Len(pattern) |-> 0])

RECURSIVE kmp_loop(_, _, _, _, _)
kmp_loop(pattern, line, lps, i, j) ==
    LET m == Len(pattern)
        n == Len(line)
    IN  IF ~(i < n) THEN FALSE
        ELSE LET adv == pattern[j + 1] = line[i + 1]
                 i1 == IF adv THEN i + 1 ELSE i
                 j1 == IF adv THEN j + 1 ELSE j
             IN  IF j1 = m THEN TRUE
                 ELSE IF i1 < n /\ pattern[j1 + 1] # line[i1 + 1]
                      THEN IF j1 # 0
                           THEN kmp_loop(pattern, line, lps, i1, lps[j1])
                           ELSE kmp_loop(pattern, line, lps, i1 + 1, j1)
                      ELSE kmp_loop(pattern, line, lps, i1, j1)

kmp_search_line(pattern, line) ==
    IF Len(pattern) # Len(line) THEN FALSE
    ELSE kmp_loop(pattern, line, compute_lps(pattern), 0, 0)

kmp_search(text, pattern) ==
    LET lines == split(text)
    IN  \E i \in DOMAIN lines : kmp_search_line(pattern, lines[i])

(***************************************************************************)
(* AhoCorasick.  goto, output and fail are dictionaries: functions whose   *)
(* domain is the set of keys.                                              *)
(***************************************************************************)
EmptyDict == [x \in {} |-> 0]
DictPut(d, k, v) == [x \in DOMAIN d \cup {k} |-> IF x = k THEN v ELSE d[x]]

\* AhoCorasick.__init__
AhoInit == [goto |-> EmptyDict, output |-> EmptyDict, fail |-> EmptyDict,
            new_state |-> 0]

RECURSIVE add_loop(_, _, _, _)
add_loop(aho, pattern, k, state) ==
    IF k > Len(pattern)
    THEN [aho EXCEPT !.output = DictPut(@, state, pattern)]
    ELSE LET char == pattern[k]
             a1 == IF <<state, char>> \notin DOMAIN aho.goto
                   THEN [aho EXCEPT !.new_state = @ + 1,
                                    !.goto = DictPut(@, <<state, char>>,
                                                     aho.new_state + 1)]
                   ELSE aho
         IN  add_loop(a1, pattern, k + 1, a1.goto[<<state, char>>])

add_pattern(aho, pattern) == add_loop(aho, pattern, 1, 0)

\* {key[1] for key in self.goto if key[0] == r}
CharsFrom(aho, r) == {key[2] : key \in {x \in DOMAIN aho.goto : x[1] = r}}

\* the order in which a loop visits a set
RECURSIVE SetToSeq(_)
SetToSeq(S) ==
    IF S = {} THEN <<>>
    ELSE LET x == CHOOSE y \in S : TRUE IN <<x>> \o SetToSeq(S \ {x})

\* while (state, key) not in self.goto and state != 0: state = self.fail[state]
RECURSIVE fail_walk(_, _, _)
fail_walk(aho, state, key) ==
    IF <<state, key>> \notin DOMAIN aho.goto /\ state # 0
    THEN fail_walk(aho, aho.fail[state], key)
    ELSE state

\* the first loop of build_automaton: the states reached from state 0
RECURSIVE build_roots(_, _, _)
build_roots(aho, chars, queue) ==
    IF chars = <<>> THEN [aho |-> aho, queue |-> queue]
    ELSE LET state == aho.goto[<<0, Head(chars)>>]
         IN  build_roots([aho EXCEPT !.fail = DictPut(@, state, 0)],
                         Tail(chars), Append(queue, state))

\* the inner for loop of build_automaton over the keys of state r
RECURSIVE build_keys(_, _, _, _)
build_keys(aho, r, keys, queue) ==
    IF keys = <<>> THEN [aho |-> aho, queue |-> queue]
    ELSE LET key == Head(keys)
             s == aho.goto[<<r, key>>]
             state == fail_walk(aho, aho.fail[r], key)
             f == IF <<state, key>> \in DOMAIN aho.goto
                  THEN aho.goto[<<state, key>>]
                  ELSE 0
             a1 == [aho EXCEPT !.fail = DictPut(@, s, f)]
             a2 == IF f \in DOMAIN a1.output
                   THEN [a1 EXCEPT !.output = DictPut(@, s, a1.output[f])]
                   ELSE a1
         IN  build_keys(a2, r, Tail(keys), Append(queue, s))

\* while queue
RECURSIVE build_queue(_, _)
build_queue(aho, queue) ==
    IF queue = <<>> THEN aho
    ELSE LET r == Head(queue)
             st == build_keys(aho, r, SetToSeq(CharsFrom(aho, r)), Tail(queue))
         IN  build_queue(st.aho, st.queue)

build_automaton(aho) ==
    LET st == build_roots(aho, SetToSeq(CharsFrom(aho, 0)), <<>>)
    IN  build_queue(st.aho, st.queue)

\* AhoCorasick.search: the list of (start index, matched pattern)
RECURSIVE aho_scan(_, _, _, _, _)
aho_scan(aho, text, index, state, results) ==
    IF index >= Len(text) THEN results
    ELSE LET char == text[index + 1]
             s0 == fail_walk(aho, state, char)
         IN  IF <<s0, char>> \in DOMAIN aho.goto
             THEN LET s1 == aho.goto[<<s0, char>>]
                  IN  aho_scan(aho, text, index + 1, s1,
                               IF s1 \in DOMAIN aho.output
                               THEN Append(results,
                                      <<index - Len(aho.output[s1]) + 1,
                                        aho.output[s1]>>)
                               ELSE results)
             ELSE aho_scan(aho, text, index + 1, 0, results)

aho_search(aho, text) == aho_scan(aho, text, 0, 0, <<>>)

aho_corasick_search(text, pattern) ==
    LET aho == build_automaton(add_pattern(AhoInit, pattern))
        lines == split(text)
    IN  \E i \in DOMAIN lines :
            /\ Len(lines[i]) = Len(pattern)
            /\ LET matches == aho_search(aho, lines[i])
               IN  \E k \in DOMAIN matches : matches[k][2] = pattern

(***************************************************************************)
(* Server.search: the response for a query against a database.             *)
(***************************************************************************)
\* "STRING EXISTS"
StringExists == <<83, 84, 82, 73, 78, 71, 32, 69, 88, 73, 83, 84, 83>>
\* "STRING NOT FOUND"
StringNotFound == <<83, 84, 82, 73, 78, 71, 32, 78, 79, 84, 32, 70, 79, 85, 78, 68>>

search(db, query) ==
    IF regex_search(db, query) THEN StringExists ELSE StringNotFound

(***************************************************************************)
(* The request payload: client_socket.recv(self.max_payload)               *)
(* .rstrip(b"\x00").decode("utf-8"), and response.encode("utf-8").         *)
(***************************************************************************)
max_payload == 1024

\* a mistaken recv that returns everything the client sent
recv_all(data, bufsize) == data

\* socket.recv(bufsize) on the bytes the client sent: at most bufsize bytes
recv(data, bufsize) ==
    SubSeq(data, 1, IF Len(data) < bufsize THEN Len(data) ELSE bufsize)

\* bytes.rstrip(b"\x00")
RECURSIVE rstrip(_)
rstrip(b) ==
    IF b # <<>> /\ b[Len(b)] = NUL THEN rstrip(SubSeq(b, 1, Len(b) - 1)) ELSE b

\* bytes.decode("utf-8") from position i on: the code points decoded, or
\* ok = FALSE where Python raises UnicodeDecodeError
RECURSIVE decode_from(_, _, _)
decode_from(b, i, acc) ==
    IF i > Len(b) THEN [ok |-> TRUE, str |-> acc]
    ELSE LET b0 == b[i]
             cont(k) == i + k <= Len(b) /\ b[i + k] \in 128..191
             c(k) == b[i + k] - 128
         IN  IF b0 < 128
             THEN decode_from(b, i + 1, Append(acc, b0))
             ELSE IF b0 \in 194..223 /\ cont(1)
             THEN decode_from(b, i + 2, Append(acc, (b0 - 192) * 64 + c(1)))
             ELSE IF /\ b0 \in 224..239 /\ cont(1) /\ cont(2)
                     /\ (b0 = 224 => b[i + 1] >= 160)
                     /\ (b0 = 237 => b[i + 1] <= 159)
             THEN decode_from(b, i + 3,
                      Append(acc, (b0 - 224) * 4096 + c(1) * 64 + c(2)))
             ELSE IF /\ b0 \in 240..244 /\ cont(1) /\ cont(2) /\ cont(3)
                     /\ (b0 = 240 => b[i + 1] >= 144)
                     /\ (b0 = 244 => b[i + 1] <= 143)
             THEN decode_from(b, i + 4,
                      Append(acc, (b0 - 240) * 262144 + c(1) * 4096
                                  + c(2) * 64 + c(3)))
             ELSE [ok |-> FALSE, str |-> <<>>]

\* bytes.decode("utf-8").  More than 32 bytes are decoded in two parts, cut
\* at the first byte after the middle that starts a character (a byte that
\* is not a continuation byte); four continuation bytes in a row belong to
\* no character
RECURSIVE utf8_decode(_)
utf8_decode(b) ==
    IF Len(b) <= 32 THEN decode_from(b, 1, <<>>)
    ELSE LET m == Len(b) \div 2
             ks == {k \in (m + 1)..(m + 4) : b[k] \notin 128..191}
         IN  IF ks = {} THEN [ok |-> FALSE, str |-> <<>>]
             ELSE LET k == CHOOSE x \in ks : \A y \in ks : x <= y
                      l == utf8_decode(SubSeq(b, 1, k - 1))
                      r == utf8_decode(SubSeq(b, k, Len(b)))
                  IN  IF l.ok /\ r.ok
                      THEN [ok |-> TRUE, str |-> l.str \o r.str]
                      ELSE [ok |-> FALSE, str |-> <<>>]

\* str.encode("utf-8")
RECURSIVE utf8_encode(_)
utf8_encode(s) ==
    IF s = <<>> THEN <<>>
    ELSE LET cp == Head(s)
             enc == IF cp < 128 THEN <<cp>>
                    ELSE IF cp < 2048
                    THEN <<192 + (cp \div 64), 128 + (cp % 64)>>
                    ELSE IF cp < 65536
                    THEN <<224 + (cp \div 4096), 128 + ((cp \div 64) % 64),
                           128 + (cp % 64)>>
                    ELSE <<240 + (cp \div 262144), 128 + ((cp \div 4096) % 64),
                           128 + ((cp \div 64) % 64), 128 + (cp % 64)>>
         IN  enc \o utf8_encode(Tail(s))

\* the payloads clients send: b"b\x00\x00" and b"\xff"
Payloads == {<<98, NUL, NUL>>, <<255>>}

(***************************************************************************)
(* Config.__init__ and read_config.  The configuration file is the dict of *)
(* its options (the defaults of the parser merged with its sections); an   *)
(* option's value is the text written in the file.                         *)
(***************************************************************************)
\* str.lower() on the letters A-Z
lower(s) == [i \in DOMAIN s |-> IF s[i] \in 65..90 THEN s[i] + 32 ELSE s[i]]

\* the tuple ("yes", "true", "on" "1") of Config.__init__: adjacent string
\* literals are one string, so its members are "yes", "true" and "on1"
TrueTexts == {<<121, 101, 115>>, <<116, 114, 117, 101>>, <<111, 110, 49>>}

\* val.lower() in ("yes", "true", "on" "1")
to_bool(val) == lower(val) \in TrueTexts

\* int(val) of a text of decimal digits
RECURSIVE int_of(_)
int_of(val) ==
    IF val = <<>> THEN 0
    ELSE int_of(SubSeq(val, 1, Len(val) - 1)) * 10 + (val[Len(val)] - 48)

\* the values of the fields: a str, a bool or an int
FromStr(t) == [typ |-> "str", text |-> t, flag |-> FALSE, num |-> 0]
FromBool(b) == [typ |-> "bool", text |-> <<>>, flag |-> b, num |-> 0]
FromInt(n) == [typ |-> "int", text |-> <<>>, flag |-> FALSE, num |-> n]

\* the truth value of `if val:`
Truthy(val) ==
    CASE val.typ = "bool" -> val.flag
      [] val.typ = "int" -> val.num # 0
      [] OTHER -> val.text # <<>>

\* fields(self): the fields of the dataclass, each with its type.  The
\* annotations of the dataclass are evaluated, so f.type is the class
\* itself (bool, int), not its name
FieldType == [host |-> "<class 'str'>", port |-> "<class 'int'>",
              ssl |-> "<class 'bool'>", certfile |-> "<class 'str'>",
              keyfile |-> "<class 'str'>", log_level |-> "<class 'str'>",
              linuxpath |-> "<class 'str'>",
              reread_on_query |-> "<class 'bool'>",
              extra |-> "<class 'dict'>"]

\* "0.0.0.0"
TxtHost == <<48, 46, 48, 46, 48, 46, 48>>
\* "server.crt"
TxtCertfile == <<115, 101, 114, 118, 101, 114, 46, 99, 114, 116>>
\* "server.key"
TxtKeyfile == <<115, 101, 114, 118, 101, 114, 46, 107, 101, 121>>

\* dataclasses.MISSING, the default of a field with a default_factory
Missing == [typ |-> "MISSING", text |-> <<>>, flag |-> FALSE, num |-> 0]

\* f.default; log_level is "DEBUG" and linuxpath "samples/200k.txt"
FieldDefault == [host |-> FromStr(TxtHost), port |-> FromInt(8080),
                 ssl |-> FromBool(FALSE), certfile |-> FromStr(TxtCertfile),
                 keyfile |-> FromStr(TxtKeyfile),
                 log_level |-> FromStr(<<68, 69, 66, 85, 71>>),
                 linuxpath |-> FromStr(<<115, 97, 109, 112, 108, 101, 115,
                                         47, 50, 48, 48, 107, 46, 116, 120,
                                         116>>),
                 reread_on_query |-> FromBool(FALSE), extra |-> Missing]

\* f.type == "bool", f.type == "int"
TypeIs(f, name) == FieldType[f] = name

\* the value Config.__init__ sets for field f given as val
Convert(f, val) ==
    LET v1 == IF TypeIs(f, "bool") /\ val.typ # "bool"
              THEN FromBool(to_bool(val.text))
              ELSE val
    IN  IF TypeIs(f, "int") /\ v1.typ # "int"
        THEN FromInt(int_of(v1.text))
        ELSE v1

\* kwargs after the loop over the fields has popped every key that names
\* a field
Popped(kwargs) ==
    [k \in DOMAIN kwargs \ DOMAIN FieldType |-> kwargs[k]]

\* Config(**kwargs): the loop over fields(self), then self.extra = kwargs
Config(kwargs) ==
    [f \in DOMAIN FieldType |->
        IF f = "extra" THEN Popped(kwargs)
        ELSE IF f \in DOMAIN kwargs THEN Convert(f, FromStr(kwargs[f]))
        ELSE FieldDefault[f]]

\* os.getcwd(): "/srv"
Cwd == <<47, 115, 114, 118>>
\* os.path.isabs(path)
isabs(path) == path # <<>> /\ path[1] = 47
\* os.path.abspath(path) of a path without "." and ".." parts
abspath(path) == IF isabs(path) THEN path ELSE Cwd \o <<47>> \o path

\* read_config(config_path) of a file that exists, given as its options
read_config(opts) ==
    LET config == Config(opts)
    IN  IF ~isabs(config.linuxpath.text)
        THEN [config EXCEPT !.linuxpath = FromStr(abspath(@.text))]
        ELSE config

\* the texts "True" and "False"
TxtTrue == <<84, 114, 117, 101>>
TxtFalseCap == <<70, 97, 108, 115, 101>>
\* the texts of reread_on_query in the configuration file
RereadTexts == {TxtTrue, TxtFalseCap}

\* the options of the configuration file: reread_on_query with one of the
\* texts, or no option at all
CfgOpts == {[k \in {"reread_on_query"} |-> t] : t \in RereadTexts}
               \cup {EmptyDict}
CfgMissing == [st |-> "missing", opts |-> EmptyDict]
\* a file configparser cannot parse
CfgMalformed == [st |-> "malformed", opts |-> EmptyDict]
CfgStates == {[st |-> "ok", opts |-> o] : o \in CfgOpts}
                 \cup {CfgMissing, CfgMalformed}

(***************************************************************************)
(* read_file.  The corpus file on disk is missing, cannot be opened, or    *)
(* holds a text.                                                           *)
(***************************************************************************)
max_lines == 250000

\* the next line of a file: up to and including the first newline
first_line(rest) ==
    IF \E i \in DOMAIN rest : rest[i] = NL
    THEN SubSeq(rest, 1, CHOOSE i \in DOMAIN rest :
                            rest[i] = NL /\ \A j \in 1..(i - 1) : rest[j] # NL)
    ELSE rest

RECURSIVE SumLen(_)
SumLen(ls) == IF ls = <<>> THEN 0 ELSE Len(Head(ls)) + SumLen(Tail(ls))

\* "".join(lines)
RECURSIVE join(_)
join(ls) == IF ls = <<>> THEN <<>> ELSE Head(ls) \o join(Tail(ls))

\* file.readlines(hint) stops reading: the file is exhausted, or the lines
\* read so far hold more than hint characters
readlines_done(rest, ls, hint) ==
    rest = <<>> \/ (hint > 0 /\ SumLen(ls) > hint)

RECURSIVE readlines(_, _, _)
readlines(rest, ls, hint) ==
    IF readlines_done(rest, ls, hint) THEN ls
    ELSE LET ln == first_line(rest)
         IN  readlines(SubSeq(rest, Len(ln) + 1, Len(rest)), Append(ls, ln),
                       hint)

\* read_file(filepath, hint) of a file that exists
read_file_lines(file, hint) ==
    IF file.st = "unreadable" THEN <<>>
    ELSE join(readlines(file.text, <<>>, hint))

\* read_file(filepath): max_lines has its default
read_file(file) == read_file_lines(file, max_lines)

\* the texts of the corpus file: "a" and "a\nb"
CorpusTexts == {<<97>>, <<97, NL, 98>>}
CorpusMissing == [st |-> "missing", text |-> <<>>]
CorpusUnreadable == [st |-> "unreadable", text |-> <<>>]
CorpusStates == {[st |-> "ok", text |-> t] : t \in CorpusTexts}
                    \cup {CorpusMissing, CorpusUnreadable}

\* iter between two iterations of the accept loop.  parsed and opts record
\* the options read_config parsed in the iteration, load how far
\* load_database got in it ("no", "open" or "done") and src the file that
\* read_file found
\* neither configs.certfile nor configs.keyfile exists
NoCerts == [certfile |-> FALSE, keyfile |-> FALSE]

\* server_socket before bind
NoListener == [host |-> <<>>, port |-> 0, backlog |-> 0]
\* no stop() runs step by step, and none has
StopIdle == [pc |-> "idle", at |-> "none", seen |-> 0, inflight |-> {}]

NoFile == [st |-> "none", text |-> <<>>]
IterIdle == [parsed |-> FALSE, opts |-> EmptyDict, load |-> "no",
             src |-> NoFile]

(***************************************************************************)
(* State.                                                                  *)
(***************************************************************************)
VARIABLES
    database,       \* Server.database
    configs,        \* Server.configs
    is_running,     \* Server.is_running
    server_socket,  \* Server.server_socket: "open", "listening" or "closed"
    cfgFile,        \* the configuration file at config_path
    corpusFile,     \* the file at configs.linuxpath
    acceptPc,       \* where the thread running connect() and receive() is
    cur,            \* the connection the accept loop is handling, 0 if none
    fh,             \* read_file: what is left to read of the open file
    lines,          \* read_file: the local list lines
    conns,          \* the accepted connections, in the order of accept
    iter,           \* history: what the current iteration of the accept
                    \* loop parsed and loaded
    tls,            \* whether server_socket is the socket ssl.wrap_socket
                    \* returned
    certs,          \* whether the files configs.certfile and
                    \* configs.keyfile exist
    exit,           \* how the thread of connect() ended: "none", "0"
                    \* (sys.exit(0)) or "TypeError" (uncaught)
    sslLog,         \* history: the calls __init__ made to set up TLS
    stopCalls,      \* history: the calls the last stop() made on
                    \* server_socket
    max_conn,       \* Server.max_conn
    listener,       \* what bind and listen were called with on
                    \* server_socket: the address and the backlog
    stopThread,     \* the thread of a stop() that runs step by step: where
                    \* it is (pc), and history: where the accept loop was
                    \* (at), how many connections it had accepted (seen)
                    \* and which workers had not finished (inflight) when
                    \* stop() was called
    pattern,        \* search specification: the pattern
    found,          \* search specification: the results of the algorithms
    answer          \* search specification: the result of Server.search

vars == <<database, configs, is_running, server_socket, cfgFile, corpusFile,
          acceptPc, cur, fh, lines, conns, iter, tls, certs, exit, sslLog,
          stopCalls, max_conn, listener, stopThread, pattern, found,
          answer>>

lifeVars == <<tls, certs, exit, sslLog, stopCalls, max_conn, listener,
              stopThread>>
serverVars == <<configs, is_running, server_socket, cfgFile, corpusFile,
                acceptPc, cur, fh, lines, conns, iter, lifeVars>>
searchVars == <<pattern, found, answer>>

(***************************************************************************)
(* Server.__init__: the state after construction.  Construction raises     *)
(* when the configuration file or the corpus file is missing, so both      *)
(* exist.  The configuration file sets neither ssl nor port: load_ssl was  *)
(* not called, the socket is plain and port and max_conn have their        *)
(* defaults.                                                               *)
(***************************************************************************)
Init ==
    /\ cfgFile \in CfgStates \ {CfgMissing, CfgMalformed}
    /\ corpusFile \in CorpusStates \ {CorpusMissing}
    /\ configs = read_config(cfgFile.opts)
    /\ database = read_file(corpusFile)
    /\ is_running = FALSE
    /\ server_socket = "open"
    /\ acceptPc = "created"
    /\ cur = 0
    /\ fh = <<>>
    /\ lines = <<>>
    /\ conns = <<>>
    /\ iter = IterIdle
    /\ tls = FALSE
    /\ certs = NoCerts
    /\ exit = "none"
    /\ sslLog = <<>>
    /\ stopCalls = <<>>
    /\ max_conn = 5
    /\ listener = NoListener
    /\ stopThread = StopIdle
    /\ pattern = <<>>
    /\ found = <<>>
    /\ answer = <<>>

(***************************************************************************)
(* Server.__init__ step by step, from the state before construction.       *)
(***************************************************************************)
\* self.configs = read_config(config_path), socket.socket(...)
InitReadConfig ==
    /\ acceptPc = "new"
    /\ cfgFile.st = "ok"
    /\ configs' = read_config(cfgFile.opts)
    /\ server_socket' = "open"
    /\ acceptPc' = IF Truthy(configs'.ssl) THEN "load_ssl"
                   ELSE "load_database"
    /\ UNCHANGED <<database, is_running, cfgFile, corpusFile, cur, fh, lines,
                   conns, iter, searchVars, lifeVars>>

\* self.configs = read_config(config_path) and self.configs.port = port,
\* for an argument port that is not None and not 0; socket.socket(...)
InitReadConfigPort(port) ==
    /\ acceptPc = "new"
    /\ cfgFile.st = "ok"
    /\ port # 0
    /\ configs' = [read_config(cfgFile.opts) EXCEPT !.port = FromInt(port)]
    /\ server_socket' = "open"
    /\ acceptPc' = IF Truthy(configs'.ssl) THEN "load_ssl"
                   ELSE "load_database"
    /\ UNCHANGED <<database, is_running, cfgFile, corpusFile, cur, fh, lines,
                   conns, iter, searchVars, lifeVars>>

\* read_config raises FileNotFoundError, __init__ raises
InitReadConfigFail ==
    /\ acceptPc = "new"
    /\ cfgFile.st # "ok"
    /\ exit' = "FileNotFoundError"
    /\ acceptPc' = "failed"
    /\ UNCHANGED <<database, configs, is_running, server_socket, cfgFile,
                   corpusFile, cur, fh, lines, conns, iter, searchVars,
                   tls, certs, sslLog, stopCalls,
                   max_conn, listener, stopThread>>

\* load_ssl: os.path.exists(certfile), os.path.exists(keyfile)
LoadSsl ==
    /\ acceptPc = "load_ssl"
    /\ sslLog' = sslLog \o <<"load_ssl", "exists">>
    /\ acceptPc' = IF ~certs.certfile /\ ~certs.keyfile THEN "generate"
                   ELSE "wrap"
    /\ UNCHANGED <<database, configs, is_running, server_socket, cfgFile,
                   corpusFile, cur, fh, lines, conns, iter, searchVars,
                   tls, certs, exit, stopCalls,
                   max_conn, listener, stopThread>>

\* "./.certs/server.crt" and "./.certs/server.key", the paths
\* generate_certs returns
GenCertfile == <<46, 47, 46, 99, 101, 114, 116, 115, 47, 115, 101, 114, 118,
                 101, 114, 46, 99, 114, 116>>
GenKeyfile == <<46, 47, 46, 99, 101, 114, 116, 115, 47, 115, 101, 114, 118,
                101, 114, 46, 107, 101, 121>>

\* self.configs.certfile, self.configs.keyfile = generate_certs()
GenerateCertsOK ==
    /\ acceptPc = "generate"
    /\ configs' = [configs EXCEPT !.certfile = FromStr(GenCertfile),
                                  !.keyfile = FromStr(GenKeyfile)]
    /\ certs' = [certfile |-> TRUE, keyfile |-> TRUE]
    /\ sslLog' = Append(sslLog, "generate_certs")
    /\ acceptPc' = "wrap"
    /\ UNCHANGED <<database, is_running, server_socket, cfgFile,
                   corpusFile, cur, fh, lines, conns, iter, searchVars,
                   tls, exit, stopCalls,
                   max_conn, listener, stopThread>>

\* generate_certs: subprocess.check_call raises, __init__ raises
GenerateCertsFail ==
    /\ acceptPc = "generate"
    /\ sslLog' = Append(sslLog, "generate_certs")
    /\ exit' = "CalledProcessError"
    /\ acceptPc' = "failed"
    /\ UNCHANGED <<database, configs, is_running, server_socket, cfgFile,
                   corpusFile, cur, fh, lines, conns, iter, searchVars,
                   tls, certs, stopCalls,
                   max_conn, listener, stopThread>>

\* self.server_socket = ssl.wrap_socket(...)
WrapOK ==
    /\ acceptPc = "wrap"
    /\ certs.certfile
    /\ certs.keyfile
    /\ tls' = TRUE
    /\ sslLog' = Append(sslLog, "wrap_socket")
    /\ acceptPc' = "load_database"
    /\ UNCHANGED <<database, configs, is_running, server_socket, cfgFile,
                   corpusFile, cur, fh, lines, conns, iter, searchVars,
                   certs, exit, stopCalls,
                   max_conn, listener, stopThread>>

\* ssl.wrap_socket raises (a file is missing or is no certificate):
\* except Exception, print
WrapFail ==
    /\ acceptPc = "wrap"
    /\ sslLog' = Append(sslLog, "wrap_socket")
    /\ acceptPc' = "load_database"
    /\ UNCHANGED <<database, configs, is_running, server_socket, cfgFile,
                   corpusFile, cur, fh, lines, conns, iter, searchVars,
                   tls, certs, exit, stopCalls,
                   max_conn, listener, stopThread>>

\* self.load_database(), self.is_running = False,
\* self.max_conn = max_conn, for the argument max_conn = m
InitLoadDatabase(m) ==
    /\ acceptPc = "load_database"
    /\ corpusFile.st # "missing"
    /\ database' = read_file(corpusFile)
    /\ is_running' = FALSE
    /\ max_conn' = m
    /\ acceptPc' = "created"
    /\ UNCHANGED <<configs, server_socket, cfgFile, corpusFile, cur, fh,
                   lines, conns, iter, searchVars, tls, certs, exit, sslLog,
                   stopCalls, listener, stopThread>>

\* read_file raises FileNotFoundError, __init__ raises
InitLoadDatabaseFail ==
    /\ acceptPc = "load_database"
    /\ corpusFile.st = "missing"
    /\ exit' = "FileNotFoundError"
    /\ acceptPc' = "failed"
    /\ UNCHANGED <<database, configs, is_running, server_socket, cfgFile,
                   corpusFile, cur, fh, lines, conns, iter, searchVars,
                   tls, certs, sslLog, stopCalls,
                   max_conn, listener, stopThread>>

(***************************************************************************)
(* Server.connect.                                                         *)
(***************************************************************************)
\* the whole of connect() up to the call of receive(), with no step of
\* another thread in between: bind and listen succeed (configs.port is an
\* int), self.is_running = True
ConnectOK ==
    /\ acceptPc = "created"
    /\ server_socket = "open"
    /\ configs.port.typ = "int"
    /\ server_socket' = "listening"
    /\ listener' = [host |-> configs.host.text, port |-> configs.port.num,
                    backlog |-> max_conn]
    /\ is_running' = TRUE
    /\ acceptPc' = "loop"
    /\ UNCHANGED <<database, configs, cfgFile, corpusFile, cur, fh, lines,
                   conns, iter, searchVars, tls, certs, exit, sslLog,
                   stopCalls, max_conn, stopThread>>

\* bind or listen raises OSError: sys.exit(0)
ConnectFail ==
    /\ acceptPc = "created"
    /\ configs.port.typ = "int"
    /\ acceptPc' = "exited"
    /\ exit' = "0"
    /\ UNCHANGED <<database, configs, is_running, server_socket, cfgFile,
                   corpusFile, cur, fh, lines, conns, iter, searchVars,
                   tls, certs, sslLog, stopCalls,
                   max_conn, listener, stopThread>>

\* configs.port is the text of the file: bind raises TypeError, which no
\* except clause of connect catches
ConnectTypeError ==
    /\ acceptPc = "created"
    /\ configs.port.typ = "str"
    /\ acceptPc' = "exited"
    /\ exit' = "TypeError"
    /\ UNCHANGED <<database, configs, is_running, server_socket, cfgFile,
                   corpusFile, cur, fh, lines, conns, iter, searchVars,
                   tls, certs, sslLog, stopCalls,
                   max_conn, listener, stopThread>>

(***************************************************************************)
(* Server.connect step by step, for a stop() that runs between its calls.  *)
(***************************************************************************)
\* self.server_socket.bind((host, port)) succeeds
ConnectBind ==
    /\ acceptPc = "created"
    /\ server_socket = "open"
    /\ configs.port.typ = "int"
    /\ server_socket' = "bound"
    /\ listener' = [host |-> configs.host.text, port |-> configs.port.num,
                    backlog |-> 0]
    /\ acceptPc' = "bound"
    /\ UNCHANGED <<database, configs, is_running, cfgFile, corpusFile, cur,
                   fh, lines, conns, iter, searchVars, tls, certs, exit,
                   sslLog, stopCalls, max_conn, stopThread>>

\* self.server_socket.listen(self.max_conn) succeeds
ConnectListen ==
    /\ acceptPc = "bound"
    /\ server_socket = "bound"
    /\ server_socket' = "listening"
    /\ listener' = [listener EXCEPT !.backlog = max_conn]
    /\ acceptPc' = "listened"
    /\ UNCHANGED <<database, configs, is_running, cfgFile, corpusFile, cur,
                   fh, lines, conns, iter, searchVars, tls, certs, exit,
                   sslLog, stopCalls, max_conn, stopThread>>

\* listen raises OSError on the socket a stop() has closed: sys.exit(0)
ConnectListenFail ==
    /\ acceptPc = "bound"
    /\ server_socket = "closed"
    /\ acceptPc' = "exited"
    /\ exit' = "0"
    /\ UNCHANGED <<database, configs, is_running, server_socket, cfgFile,
                   corpusFile, cur, fh, lines, conns, iter, searchVars,
                   tls, certs, sslLog, stopCalls, max_conn, listener,
                   stopThread>>

\* self.is_running = True, self.receive()
ConnectRun ==
    /\ acceptPc = "listened"
    /\ is_running' = TRUE
    /\ acceptPc' = "loop"
    /\ UNCHANGED <<database, configs, server_socket, cfgFile, corpusFile,
                   cur, fh, lines, conns, iter, searchVars, lifeVars>>

\* connect() is called again after the call before has ended
ConnectAgain ==
    /\ acceptPc = "exited"
    /\ acceptPc' = "created"
    /\ exit' = "none"
    /\ UNCHANGED <<database, configs, is_running, server_socket, cfgFile,
                   corpusFile, cur, fh, lines, conns, iter, searchVars,
                   tls, certs, sslLog, stopCalls, max_conn, listener,
                   stopThread>>

(***************************************************************************)
(* Server.stop, called from another thread on the constructed server.      *)
(***************************************************************************)
\* where the thread that constructs the server is before __init__ returns
ConstructionPcs == {"new", "load_ssl", "generate", "wrap", "load_database",
                    "failed"}

\* a mistaken stop that closes the socket inside the try, after shutdown:
\* when shutdown raises OSError (the socket is not listening) close is
\* skipped
StopCloseInTry ==
    /\ acceptPc \notin ConstructionPcs
    /\ is_running' = FALSE
    /\ stopCalls' = IF server_socket = "listening"
                    THEN <<"shutdown", "close">>
                    ELSE <<"shutdown">>
    /\ server_socket' = IF server_socket = "listening"
                        THEN "closed"
                        ELSE server_socket
    /\ UNCHANGED <<database, configs, cfgFile, corpusFile, acceptPc, cur, fh,
                   lines, conns, iter, searchVars, tls, certs, exit, sslLog,
                   max_conn, listener, stopThread>>

\* shutdown raises OSError when the socket is not listening or is closed:
\* except OSError: pass; close() of a closed socket does nothing
Stop ==
    /\ acceptPc \notin ConstructionPcs
    /\ is_running' = FALSE
    /\ stopCalls' = <<"shutdown", "close">>
    /\ server_socket' = "closed"
    /\ UNCHANGED <<database, configs, cfgFile, corpusFile, acceptPc, cur, fh,
                   lines, conns, iter, searchVars, tls, certs, exit, sslLog,
                   max_conn, listener, stopThread>>

(***************************************************************************)
(* Server.stop step by step: another thread can run between the            *)
(* assignment to is_running and the calls on the socket.                   *)
(***************************************************************************)
\* self.is_running = False
StopSetFlag ==
    /\ acceptPc \notin ConstructionPcs
    /\ stopThread.pc = "idle"
    /\ is_running' = FALSE
    /\ stopCalls' = <<>>
    /\ stopThread' = [pc |-> "shutdown", at |-> acceptPc,
                      seen |-> Len(conns),
                      inflight |-> {c \in DOMAIN conns :
                          conns[c].pc \in {"recv", "search", "send"}}]
    /\ UNCHANGED <<database, configs, server_socket, cfgFile, corpusFile,
                   acceptPc, cur, fh, lines, conns, iter, searchVars, tls,
                   certs, exit, sslLog, max_conn, listener>>

\* a mistaken stop that calls shutdown and close on a copy of the socket
\* and leaves the socket of the accept loop as it is
StopLeavesSocket ==
    /\ stopThread.pc = "shutdown"
    /\ stopCalls' = <<"shutdown", "close">>
    /\ stopThread' = [stopThread EXCEPT !.pc = "idle"]
    /\ UNCHANGED <<database, configs, is_running, server_socket, cfgFile,
                   corpusFile, acceptPc, cur, fh, lines, conns, iter,
                   searchVars, tls, certs, exit, sslLog, max_conn, listener>>

\* self.server_socket.shutdown(socket.SHUT_RDWR) (except OSError: pass),
\* self.server_socket.close()
StopShutdownClose ==
    /\ stopThread.pc = "shutdown"
    /\ stopCalls' = <<"shutdown", "close">>
    /\ server_socket' = "closed"
    /\ stopThread' = [stopThread EXCEPT !.pc = "idle"]
    /\ UNCHANGED <<database, configs, is_running, cfgFile, corpusFile,
                   acceptPc, cur, fh, lines, conns, iter, searchVars, tls,
                   certs, exit, sslLog, max_conn, listener>>

(***************************************************************************)
(* Server.receive: one iteration of the accept loop.                       *)
(***************************************************************************)
\* a connection as accept() returns it.  searched records the database its
\* worker searched, events and sent the calls its worker made, err the call
\* that raised in its worker
NewConn(p) ==
    [payload |-> p, pc |-> "pending", request_data |-> <<>>,
     response |-> <<>>, searched |-> <<>>, events |-> <<>>, sent |-> <<>>,
     err |-> "none"]

\* while self.is_running
LoopTest ==
    /\ acceptPc = "loop"
    /\ acceptPc' = IF is_running THEN "accept" ELSE "exited"
    /\ UNCHANGED <<database, configs, is_running, server_socket, cfgFile,
                   corpusFile, cur, fh, lines, conns, iter, searchVars,
                   lifeVars>>

\* self.server_socket.accept() returns a connection
AcceptOK(p) ==
    /\ acceptPc = "accept"
    /\ server_socket = "listening"
    /\ Len(conns) < MaxConns
    /\ conns' = Append(conns, NewConn(p))
    /\ cur' = Len(conns) + 1
    /\ acceptPc' = "read_config"
    /\ UNCHANGED <<database, configs, is_running, server_socket, cfgFile,
                   corpusFile, fh, lines, iter,
                   searchVars, lifeVars>>

\* accept() raises on the closed socket: except Exception, next iteration
AcceptError ==
    /\ acceptPc = "accept"
    /\ server_socket = "closed"
    /\ acceptPc' = "loop"
    /\ UNCHANGED <<database, configs, is_running, server_socket, cfgFile,
                   corpusFile, cur, fh, lines, conns, iter, searchVars,
                   lifeVars>>

\* a mistaken accept loop that takes a failed handshake as fatal and leaves
\* the loop
AcceptSSLErrorStops ==
    /\ acceptPc = "accept"
    /\ server_socket = "listening"
    /\ tls
    /\ is_running' = FALSE
    /\ acceptPc' = "loop"
    /\ UNCHANGED <<database, configs, server_socket, cfgFile, corpusFile,
                   cur, fh, lines, conns, iter, searchVars, lifeVars>>

\* accept() on the wrapped socket raises ssl.SSLError (the handshake with
\* the client fails): except ssl.SSLError, logger.error, next iteration
AcceptSSLError ==
    /\ acceptPc = "accept"
    /\ server_socket = "listening"
    /\ tls
    /\ acceptPc' = "loop"
    /\ UNCHANGED <<database, configs, is_running, server_socket, cfgFile,
                   corpusFile, cur, fh, lines, conns, iter, searchVars,
                   lifeVars>>

\* a mistaken test that looks at the flag parsed for the connection before
ShouldReloadStale(cfg) == Truthy(configs.reread_on_query)

\* if self.configs.reread_on_query
ShouldReload(cfg) == Truthy(cfg.reread_on_query)

\* a mistaken re-read that binds the socket to the host it has just read
ReadConfigRebinds ==
    /\ acceptPc = "read_config"
    /\ cfgFile.st = "ok"
    /\ configs' = read_config(cfgFile.opts)
    /\ listener' = [listener EXCEPT !.host = configs'.host.text]
    /\ iter' = [iter EXCEPT !.parsed = TRUE, !.opts = cfgFile.opts]
    /\ acceptPc' = IF ShouldReload(configs') THEN "load_open" ELSE "start"
    /\ UNCHANGED <<database, is_running, server_socket, cfgFile, corpusFile,
                   cur, fh, lines, conns, searchVars, tls, certs, exit,
                   sslLog, stopCalls, max_conn, stopThread>>

\* self.configs = read_config(self.config_path)
ReadConfigOK ==
    /\ acceptPc = "read_config"
    /\ cfgFile.st = "ok"
    /\ configs' = read_config(cfgFile.opts)
    /\ iter' = [iter EXCEPT !.parsed = TRUE, !.opts = cfgFile.opts]
    /\ acceptPc' = IF ShouldReload(configs') THEN "load_open" ELSE "start"
    /\ UNCHANGED <<database, is_running, server_socket, cfgFile, corpusFile,
                   cur, fh, lines, conns, searchVars,
                   lifeVars>>

\* a mistaken accept loop that takes a failed read_config as fatal
ReadConfigFailStops ==
    /\ acceptPc = "read_config"
    /\ cfgFile.st # "ok"
    /\ conns' = [conns EXCEPT ![cur].pc = "dropped"]
    /\ cur' = 0
    /\ iter' = IterIdle
    /\ is_running' = FALSE
    /\ acceptPc' = "loop"
    /\ UNCHANGED <<database, configs, server_socket, cfgFile, corpusFile,
                   fh, lines, searchVars, lifeVars>>

\* read_config raises (the file is missing, or configparser cannot parse
\* it): except Exception, the connection gets no worker
ReadConfigFail ==
    /\ acceptPc = "read_config"
    /\ cfgFile.st # "ok"
    /\ conns' = [conns EXCEPT ![cur].pc = "dropped"]
    /\ cur' = 0
    /\ iter' = IterIdle
    /\ acceptPc' = "loop"
    /\ UNCHANGED <<database, configs, is_running, server_socket, cfgFile,
                   corpusFile, fh, lines, searchVars,
                   lifeVars>>

\* load_database, read_file: the file is missing, FileNotFoundError is
\* raised: except Exception, the connection gets no worker
LoadMissing ==
    /\ acceptPc = "load_open"
    /\ corpusFile.st = "missing"
    /\ conns' = [conns EXCEPT ![cur].pc = "dropped"]
    /\ cur' = 0
    /\ iter' = IterIdle
    /\ acceptPc' = "loop"
    /\ UNCHANGED <<database, configs, is_running, server_socket, cfgFile,
                   corpusFile, fh, lines, searchVars,
                   lifeVars>>

\* load_database, read_file: open raises, read_file returns ""
LoadUnreadable ==
    /\ acceptPc = "load_open"
    /\ corpusFile.st = "unreadable"
    /\ database' = <<>>
    /\ iter' = [iter EXCEPT !.load = "done", !.src = corpusFile]
    /\ acceptPc' = "start"
    /\ UNCHANGED <<configs, is_running, server_socket, cfgFile, corpusFile,
                   cur, fh, lines, conns, searchVars,
                   lifeVars>>

\* a mistaken load that empties the database before it reads the file
LoadOpenClearing ==
    /\ acceptPc = "load_open"
    /\ corpusFile.st = "ok"
    /\ fh' = corpusFile.text
    /\ lines' = <<>>
    /\ database' = <<>>
    /\ iter' = [iter EXCEPT !.load = "open", !.src = corpusFile]
    /\ acceptPc' = "load_read"
    /\ UNCHANGED <<configs, is_running, server_socket, cfgFile,
                   corpusFile, cur, conns, searchVars,
                   lifeVars>>

\* load_database, read_file: open(filepath, "r")
LoadOpen ==
    /\ acceptPc = "load_open"
    /\ corpusFile.st = "ok"
    /\ fh' = corpusFile.text
    /\ lines' = <<>>
    /\ iter' = [iter EXCEPT !.load = "open", !.src = corpusFile]
    /\ acceptPc' = "load_read"
    /\ UNCHANGED <<database, configs, is_running, server_socket, cfgFile,
                   corpusFile, cur, conns, searchVars,
                   lifeVars>>

\* a mistaken read_file that stores every line in the database as it is read
LoadReadLineTorn ==
    /\ acceptPc = "load_read"
    /\ ~readlines_done(fh, lines, max_lines)
    /\ lines' = Append(lines, first_line(fh))
    /\ fh' = SubSeq(fh, Len(first_line(fh)) + 1, Len(fh))
    /\ database' = join(lines')
    /\ UNCHANGED <<configs, is_running, server_socket, cfgFile,
                   corpusFile, acceptPc, cur, conns, iter, searchVars,
                   lifeVars>>

\* file.readlines(max_lines) reads one more line into lines
LoadReadLine ==
    /\ acceptPc = "load_read"
    /\ ~readlines_done(fh, lines, max_lines)
    /\ lines' = Append(lines, first_line(fh))
    /\ fh' = SubSeq(fh, Len(first_line(fh)) + 1, Len(fh))
    /\ UNCHANGED <<database, configs, is_running, server_socket, cfgFile,
                   corpusFile, acceptPc, cur, conns, iter, searchVars,
                   lifeVars>>

\* self.database = "".join(lines)
LoadPublish ==
    /\ acceptPc = "load_read"
    /\ readlines_done(fh, lines, max_lines)
    /\ database' = join(lines)
    /\ fh' = <<>>
    /\ lines' = <<>>
    /\ iter' = [iter EXCEPT !.load = "done"]
    /\ acceptPc' = "start"
    /\ UNCHANGED <<configs, is_running, server_socket, cfgFile, corpusFile,
                   cur, conns, searchVars,
                   lifeVars>>

\* threading.Thread(target=self._handle_client, ...).start()
StartWorker ==
    /\ acceptPc = "start"
    /\ conns' = [conns EXCEPT ![cur].pc = "recv"]
    /\ cur' = 0
    /\ iter' = IterIdle
    /\ acceptPc' = "loop"
    /\ UNCHANGED <<database, configs, is_running, server_socket, cfgFile,
                   corpusFile, fh, lines, searchVars,
                   lifeVars>>

\* StartWorker, with the database that is current at the start of the
\* thread noted in the connection as snapshot
StartWorkerNoting ==
    /\ acceptPc = "start"
    /\ conns' = [conns EXCEPT
                   ![cur] = [pc |-> "recv", snapshot |-> database] @@ @]
    /\ cur' = 0
    /\ iter' = IterIdle
    /\ acceptPc' = "loop"
    /\ UNCHANGED <<database, configs, is_running, server_socket, cfgFile,
                   corpusFile, fh, lines, searchVars,
                   lifeVars>>

(***************************************************************************)
(* Server._handle_client: the worker thread of connection c.               *)
(***************************************************************************)
\* the request as the worker decodes it
request_of(payload) == utf8_decode(rstrip(recv(payload, max_payload)))

\* recv, rstrip and decode succeed
WorkerRecv(c) ==
    /\ c \in DOMAIN conns
    /\ conns[c].pc = "recv"
    /\ request_of(conns[c].payload).ok
    /\ conns' = [conns EXCEPT
                   ![c].request_data = request_of(conns[c].payload).str,
                   ![c].events = Append(@, "recv"),
                   ![c].pc = "search"]
    /\ UNCHANGED <<database, configs, is_running, server_socket, cfgFile,
                   corpusFile, acceptPc, cur, fh, lines, iter, searchVars,
                   lifeVars>>

\* a mistaken handler that answers a decode error with the text "ERROR"
WorkerDecodeErrorReplies(c) ==
    /\ c \in DOMAIN conns
    /\ conns[c].pc = "recv"
    /\ ~request_of(conns[c].payload).ok
    /\ conns' = [conns EXCEPT ![c].events = Append(@, "recv") \o <<"send">>,
                              ![c].sent = Append(@, <<69, 82, 82, 79, 82>>),
                              ![c].err = "decode",
                              ![c].pc = "done"]
    /\ UNCHANGED <<database, configs, is_running, server_socket, cfgFile,
                   corpusFile, acceptPc, cur, fh, lines, iter, searchVars,
                   lifeVars>>

\* decode raises UnicodeDecodeError: except Exception, logger.error
WorkerDecodeError(c) ==
    /\ c \in DOMAIN conns
    /\ conns[c].pc = "recv"
    /\ ~request_of(conns[c].payload).ok
    /\ conns' = [conns EXCEPT ![c].events = Append(@, "recv"),
                              ![c].err = "decode",
                              ![c].pc = "done"]
    /\ UNCHANGED <<database, configs, is_running, server_socket, cfgFile,
                   corpusFile, acceptPc, cur, fh, lines, iter, searchVars,
                   lifeVars>>

\* recv raises (the peer reset the connection): except Exception, logger.error
WorkerRecvError(c) ==
    /\ c \in DOMAIN conns
    /\ conns[c].pc = "recv"
    /\ conns' = [conns EXCEPT ![c].events = Append(@, "recv"),
                              ![c].err = "recv",
                              ![c].pc = "done"]
    /\ UNCHANGED <<database, configs, is_running, server_socket, cfgFile,
                   corpusFile, acceptPc, cur, fh, lines, iter, searchVars,
                   lifeVars>>

\* response = self.search(request_data)
WorkerSearch(c) ==
    /\ c \in DOMAIN conns
    /\ conns[c].pc = "search"
    /\ conns' = [conns EXCEPT
                   ![c].response = search(database, conns[c].request_data),
                   ![c].searched = database,
                   ![c].events = Append(@, "search"),
                   ![c].pc = "send"]
    /\ UNCHANGED <<database, configs, is_running, server_socket, cfgFile,
                   corpusFile, acceptPc, cur, fh, lines, iter, searchVars,
                   lifeVars>>

\* a mistaken worker that sends only while the server is running
WorkerSendIfRunning(c) ==
    /\ c \in DOMAIN conns
    /\ conns[c].pc = "send"
    /\ conns' = [conns EXCEPT
                   ![c].sent = IF is_running
                               THEN Append(@, utf8_encode(conns[c].response))
                               ELSE @,
                   ![c].events = IF is_running THEN Append(@, "send") ELSE @,
                   ![c].err = IF is_running THEN @ ELSE "stopped",
                   ![c].pc = "done"]
    /\ UNCHANGED <<database, configs, is_running, server_socket, cfgFile,
                   corpusFile, acceptPc, cur, fh, lines, iter, searchVars,
                   lifeVars>>

\* client_socket.sendall(response.encode("utf-8"))
WorkerSend(c) ==
    /\ c \in DOMAIN conns
    /\ conns[c].pc = "send"
    /\ conns' = [conns EXCEPT
                   ![c].sent = Append(@, utf8_encode(conns[c].response)),
                   ![c].events = Append(@, "send"),
                   ![c].pc = "done"]
    /\ UNCHANGED <<database, configs, is_running, server_socket, cfgFile,
                   corpusFile, acceptPc, cur, fh, lines, iter, searchVars,
                   lifeVars>>

\* sendall raises (the peer closed the connection): except Exception,
\* logger.error
WorkerSendError(c) ==
    /\ c \in DOMAIN conns
    /\ conns[c].pc = "send"
    /\ conns' = [conns EXCEPT ![c].events = Append(@, "send"),
                              ![c].err = "send",
                              ![c].pc = "done"]
    /\ UNCHANGED <<database, configs, is_running, server_socket, cfgFile,
                   corpusFile, acceptPc, cur, fh, lines, iter, searchVars,
                   lifeVars>>

(***************************************************************************)
(* The environment: the operator rewrites the files.                       *)
(***************************************************************************)
WriteCorpus(s) ==
    /\ s # corpusFile
    /\ corpusFile' = s
    /\ UNCHANGED <<database, configs, is_running, server_socket, cfgFile,
                   acceptPc, cur, fh, lines, conns, iter, searchVars,
                   lifeVars>>

WriteConfig(s) ==
    /\ s # cfgFile
    /\ cfgFile' = s
    /\ UNCHANGED <<database, configs, is_running, server_socket, corpusFile,
                   acceptPc, cur, fh, lines, conns, iter,
                   searchVars, lifeVars>>

Next ==
    \/ ConnectOK
    \/ ConnectFail
    \/ Stop
    \/ LoopTest
    \/ \E p \in Payloads : AcceptOK(p)
    \/ AcceptError
    \/ ReadConfigOK
    \/ ReadConfigFail
    \/ LoadMissing
    \/ LoadUnreadable
    \/ LoadOpen
    \/ LoadReadLine
    \/ LoadPublish
    \/ StartWorker
    \/ \E c \in 1..MaxConns : WorkerRecv(c)
    \/ \E c \in 1..MaxConns : WorkerDecodeError(c)
    \/ \E c \in 1..MaxConns : WorkerRecvError(c)
    \/ \E c \in 1..MaxConns : WorkerSearch(c)
    \/ \E c \in 1..MaxConns : WorkerSend(c)
    \/ \E c \in 1..MaxConns : WorkerSendError(c)
    \/ \E s \in CorpusStates : WriteCorpus(s)
    \/ \E s \in CfgStates : WriteConfig(s)

Spec == Init /\ [][Next]_vars

(***************************************************************************)
(* The search specification: every algorithm, and Server.search, applied   *)
(* to a database and a pattern drawn from the strings over Alphabet.       *)
(***************************************************************************)
InitSearch ==
    /\ database \in StringsUpTo(MaxTextLen)
    /\ pattern \in StringsUpTo(MaxPatLen)
    /\ found = <<>>
    /\ answer = <<>>
    /\ cfgFile = [st |-> "ok", opts |-> EmptyDict]
    /\ corpusFile = [st |-> "ok", text |-> database]
    /\ configs = read_config(cfgFile.opts)
    /\ is_running = FALSE
    /\ server_socket = "open"
    /\ acceptPc = "created"
    /\ cur = 0
    /\ fh = <<>>
    /\ lines = <<>>
    /\ conns = <<>>
    /\ iter = IterIdle
    /\ tls = FALSE
    /\ certs = NoCerts
    /\ exit = "none"
    /\ sslLog = <<>>
    /\ stopCalls = <<>>
    /\ max_conn = 5
    /\ listener = NoListener
    /\ stopThread = StopIdle

RunNative ==
    /\ Len(found) = 0
    /\ found' = Append(found, native_search(database, pattern))
    /\ UNCHANGED <<database, pattern, answer, serverVars>>

RunRegex ==
    /\ Len(found) = 1
    /\ found' = Append(found, regex_search(database, pattern))
    /\ UNCHANGED <<database, pattern, answer, serverVars>>

RunRabinKarp ==
    /\ Len(found) = 2
    /\ found' = Append(found, rabin_karp_search(database, pattern))
    /\ UNCHANGED <<database, pattern, answer, serverVars>>

RunKmp ==
    /\ Len(found) = 3
    /\ found' = Append(found, kmp_search(database, pattern))
    /\ UNCHANGED <<database, pattern, answer, serverVars>>

RunAhoCorasick ==
    /\ Len(found) = 4
    /\ found' = Append(found, aho_corasick_search(database, pattern))
    /\ UNCHANGED <<database, pattern, answer, serverVars>>

\* Server.search(pattern)
RunServerSearch ==
    /\ Len(found) = 5
    /\ answer = <<>>
    /\ answer' = search(database, pattern)
    /\ UNCHANGED <<database, pattern, found, serverVars>>

NextSearch ==
    \/ RunNative
    \/ RunRegex
    \/ RunRabinKarp
    \/ RunKmp
    \/ RunAhoCorasick
    \/ RunServerSearch

SpecSearch == InitSearch /\ [][NextSearch]_vars

(***************************************************************************)
(* The server with a corpus file nobody writes: the steps of Next except   *)
(* WriteCorpus, and LoadMissing, which needs the file to have vanished.    *)
(***************************************************************************)
NextFixed ==
    \/ ConnectOK
    \/ ConnectFail
    \/ Stop
    \/ LoopTest
    \/ \E p \in Payloads : AcceptOK(p)
    \/ AcceptError
    \/ ReadConfigOK
    \/ ReadConfigFail
    \/ LoadUnreadable
    \/ LoadOpen
    \/ LoadReadLine
    \/ LoadPublish
    \/ StartWorker
    \/ \E c \in 1..MaxConns : WorkerRecv(c)
    \/ \E c \in 1..MaxConns : WorkerDecodeError(c)
    \/ \E c \in 1..MaxConns : WorkerRecvError(c)
    \/ \E c \in 1..MaxConns : WorkerSearch(c)
    \/ \E c \in 1..MaxConns : WorkerSend(c)
    \/ \E c \in 1..MaxConns : WorkerSendError(c)
    \/ \E s \in CfgStates : WriteConfig(s)

SpecFixed == Init /\ [][NextFixed]_vars

(***************************************************************************)
(* The startup specification: the server from before its construction,     *)
(* with a configuration file that sets ssl and port or leaves them out,    *)
(* certificate files that exist or not, and files nobody writes.  The      *)
(* file does not switch reread_on_query on, so the steps of load_database  *)
(* in the accept loop are left out.                                        *)
(***************************************************************************)
\* the argument max_conn of the constructor: 1, or the default
MaxConnArgs == {1, 5}

\* the text "8080"
TxtPort == <<56, 48, 56, 48>>
\* the texts of ssl in the configuration file
SslTexts == {TxtTrue, TxtFalseCap}

StartCfgOpts ==
    {EmptyDict, [k \in {"port"} |-> TxtPort]}
        \cup {[k \in {"ssl"} |-> t] : t \in SslTexts}
        \cup {[k \in {"ssl", "port"} |-> IF k = "ssl" THEN t ELSE TxtPort] :
                 t \in SslTexts}

InitStartup ==
    /\ cfgFile \in {[st |-> "ok", opts |-> o] : o \in StartCfgOpts}
                       \cup {CfgMissing}
    /\ corpusFile \in {[st |-> "ok", text |-> <<97, NL, 98>>], CorpusMissing}
    /\ certs \in [certfile : BOOLEAN, keyfile : BOOLEAN]
    /\ configs = Config(EmptyDict)
    /\ database = <<>>
    /\ is_running = FALSE
    /\ server_socket = "none"
    /\ acceptPc = "new"
    /\ cur = 0
    /\ fh = <<>>
    /\ lines = <<>>
    /\ conns = <<>>
    /\ iter = IterIdle
    /\ tls = FALSE
    /\ exit = "none"
    /\ sslLog = <<>>
    /\ stopCalls = <<>>
    /\ max_conn = 5
    /\ listener = NoListener
    /\ stopThread = StopIdle
    /\ pattern = <<>>
    /\ found = <<>>
    /\ answer = <<>>

NextStartup ==
    \/ InitReadConfig
    \/ InitReadConfigFail
    \/ LoadSsl
    \/ GenerateCertsOK
    \/ GenerateCertsFail
    \/ WrapOK
    \/ WrapFail
    \/ \E m \in MaxConnArgs : InitLoadDatabase(m)
    \/ InitLoadDatabaseFail
    \/ ConnectOK
    \/ ConnectFail
    \/ ConnectTypeError
    \/ Stop
    \/ LoopTest
    \/ \E p \in Payloads : AcceptOK(p)
    \/ AcceptError
    \/ AcceptSSLError
    \/ ReadConfigOK
    \/ StartWorker
    \/ \E c \in 1..MaxConns : WorkerRecv(c)
    \/ \E c \in 1..MaxConns : WorkerDecodeError(c)
    \/ \E c \in 1..MaxConns : WorkerRecvError(c)
    \/ \E c \in 1..MaxConns : WorkerSearch(c)
    \/ \E c \in 1..MaxConns : WorkerSend(c)
    \/ \E c \in 1..MaxConns : WorkerSendError(c)

SpecStartup == InitStartup /\ [][NextStartup]_vars

(***************************************************************************)
(* The snapshot specification: the server with reread_on_query on and a    *)
(* corpus file that is rewritten while the workers run.  Every connection  *)
(* notes the database it was dispatched with.                              *)
(***************************************************************************)
InitSnapshot ==
    /\ Init
    /\ cfgFile.opts = [k \in {"reread_on_query"} |-> TxtTrue]
    /\ corpusFile.st = "ok"

NextSnapshot ==
    \/ ConnectOK
    \/ LoopTest
    \/ \E p \in Payloads : AcceptOK(p)
    \/ ReadConfigOK
    \/ LoadOpen
    \/ LoadReadLine
    \/ LoadPublish
    \/ StartWorkerNoting
    \/ \E c \in 1..MaxConns : WorkerRecv(c)
    \/ \E c \in 1..MaxConns : WorkerDecodeError(c)
    \/ \E c \in 1..MaxConns : WorkerSearch(c)
    \/ \E c \in 1..MaxConns : WorkerSend(c)
    \/ \E s \in {f \in CorpusStates : f.st = "ok"} : WriteCorpus(s)

SpecSnapshot == InitSnapshot /\ [][NextSnapshot]_vars

(***************************************************************************)
(* The re-read specification: the server from before its construction,     *)
(* started with or without the argument port, and a configuration file     *)
(* whose host, port, ssl, certfile and keyfile are rewritten while the     *)
(* accept loop runs.  The workers are left out.                            *)
(***************************************************************************)
\* the file sets every one of the five options: host "h", port "8080",
\* ssl "True", certfile "x.crt", keyfile "x.key"
AllFive == [host |-> <<104>>, port |-> TxtPort, ssl |-> TxtTrue,
            certfile |-> <<120, 46, 99, 114, 116>>,
            keyfile |-> <<120, 46, 107, 101, 121>>]
\* the file has none of the five options, one of them, or all five
RereadCfgStates ==
    {[st |-> "ok", opts |-> o] :
        o \in {EmptyDict, AllFive}
                \cup {[k \in {f} |-> AllFive[f]] : f \in DOMAIN AllFive}}

InitReread ==
    /\ cfgFile \in RereadCfgStates
    /\ corpusFile = [st |-> "ok", text |-> <<97, NL, 98>>]
    /\ certs \in {NoCerts, [certfile |-> TRUE, keyfile |-> TRUE]}
    /\ configs = Config(EmptyDict)
    /\ database = <<>>
    /\ is_running = FALSE
    /\ server_socket = "none"
    /\ acceptPc = "new"
    /\ cur = 0
    /\ fh = <<>>
    /\ lines = <<>>
    /\ conns = <<>>
    /\ iter = IterIdle
    /\ tls = FALSE
    /\ exit = "none"
    /\ sslLog = <<>>
    /\ stopCalls = <<>>
    /\ max_conn = 5
    /\ listener = NoListener
    /\ stopThread = StopIdle
    /\ pattern = <<>>
    /\ found = <<>>
    /\ answer = <<>>

NextReread ==
    \/ InitReadConfig
    \/ \E port \in {9090} : InitReadConfigPort(port)
    \/ LoadSsl
    \/ GenerateCertsOK
    \/ WrapOK
    \/ WrapFail
    \/ \E m \in MaxConnArgs : InitLoadDatabase(m)
    \/ ConnectOK
    \/ ConnectTypeError
    \/ LoopTest
    \/ \E p \in Payloads : AcceptOK(p)
    \/ ReadConfigOK
    \/ StartWorker
    \/ \E s \in RereadCfgStates : WriteConfig(s)

SpecReread == InitReread /\ [][NextReread]_vars

(***************************************************************************)
(* The lifecycle specification: the constructed server with connect() and  *)
(* stop() step by step, each in a thread of its own, and the workers.  The *)
(* configuration file has no option and nobody writes the files, so the    *)
(* accept loop does not reload; the clients keep their connections open,   *)
(* so recv and sendall do not raise.                                       *)
(***************************************************************************)
InitLife ==
    /\ cfgFile = [st |-> "ok", opts |-> EmptyDict]
    /\ corpusFile = [st |-> "ok", text |-> <<97, NL, 98>>]
    /\ configs = read_config(cfgFile.opts)
    /\ database = read_file(corpusFile)
    /\ is_running = FALSE
    /\ server_socket = "open"
    /\ acceptPc = "created"
    /\ cur = 0
    /\ fh = <<>>
    /\ lines = <<>>
    /\ conns = <<>>
    /\ iter = IterIdle
    /\ tls = FALSE
    /\ certs = NoCerts
    /\ exit = "none"
    /\ sslLog = <<>>
    /\ stopCalls = <<>>
    /\ max_conn \in MaxConnArgs
    /\ listener = NoListener
    /\ stopThread = StopIdle
    /\ pattern = <<>>
    /\ found = <<>>
    /\ answer = <<>>

\* the steps of the thread that runs connect() and receive()
LoopThread ==
    \/ ConnectBind
    \/ ConnectFail
    \/ ConnectListen
    \/ ConnectListenFail
    \/ ConnectRun
    \/ LoopTest
    \/ AcceptError
    \/ ReadConfigOK
    \/ StartWorker

\* the steps of the worker of connection c
Worker(c) ==
    \/ WorkerRecv(c)
    \/ WorkerDecodeError(c)
    \/ WorkerSearch(c)
    \/ WorkerSend(c)

NextLife ==
    \/ LoopThread
    \/ ConnectAgain
    \/ StopSetFlag
    \/ StopShutdownClose
    \/ \E p \in Payloads : AcceptOK(p)
    \/ \E c \in 1..MaxConns : Worker(c)

SpecLife == InitLife /\ [][NextLife]_vars

\* every thread that can take a step takes one: the thread of the accept
\* loop, the thread of stop() once it has begun, and every worker
SpecLifeFair ==
    /\ SpecLife
    /\ WF_vars(LoopThread)
    /\ WF_vars(StopShutdownClose)
    /\ \A c \in 1..MaxConns : WF_vars(Worker(c))

(***************************************************************************)
(* The payload specification: the body of _handle_client (recv, rstrip,    *)
(* decode, search, encode, sendall) applied to one payload and one         *)
(* database.  pattern holds the bytes the client sent, found the outcome   *)
(* of the decode and answer the calls of sendall.                          *)
(***************************************************************************)
\* max_payload - 1 times the byte "a"
Pad == [i \in 1..(max_payload - 1) |-> 97]

\* what follows the padding: nothing, "b", NUL and 0xff, alone and in pairs
WireTails == {<<>>, <<98>>, <<NUL>>, <<255>>, <<98, 98>>, <<98, NUL>>,
              <<98, 255>>, <<NUL, 98>>, <<NUL, NUL>>, <<NUL, 255>>,
              <<255, 98>>, <<255, NUL>>, <<98, NUL, NUL>>}

\* payloads of 0 to 3 bytes and of max_payload - 1 to max_payload + 2 bytes
WirePayloads == {h \o t : h \in {<<>>, Pad}, t \in WireTails}

\* databases with the line "b", the line Pad and the line Pad + "b"
WireCorpora == {<<98>>, Pad, <<98, NL>> \o Pad \o <<98>>}

InitWire ==
    /\ database \in WireCorpora
    /\ pattern \in WirePayloads
    /\ found = <<>>
    /\ answer = <<>>
    /\ cfgFile = [st |-> "ok", opts |-> EmptyDict]
    /\ corpusFile = [st |-> "ok", text |-> database]
    /\ configs = read_config(cfgFile.opts)
    /\ is_running = FALSE
    /\ server_socket = "open"
    /\ acceptPc = "created"
    /\ cur = 0
    /\ fh = <<>>
    /\ lines = <<>>
    /\ conns = <<>>
    /\ iter = IterIdle
    /\ tls = FALSE
    /\ certs = NoCerts
    /\ exit = "none"
    /\ sslLog = <<>>
    /\ stopCalls = <<>>
    /\ max_conn = 5
    /\ listener = NoListener
    /\ stopThread = StopIdle

\* request_data = client_socket.recv(...).rstrip(b"\x00").decode("utf-8")
WireRecv ==
    /\ found = <<>>
    /\ found' = <<request_of(pattern)>>
    /\ UNCHANGED <<database, pattern, answer, serverVars>>

\* response = self.search(request_data); sendall(response.encode("utf-8"))
WireReply ==
    /\ found # <<>>
    /\ found[1].ok
    /\ answer = <<>>
    /\ answer' = <<utf8_encode(search(database, found[1].str))>>
    /\ UNCHANGED <<database, pattern, found, serverVars>>

NextWire ==
    \/ WireRecv
    \/ WireReply

SpecWire == InitWire /\ [][NextWire]_vars

(***************************************************************************)
(* The read_file specification: read_file applied to a file and an         *)
(* argument max_lines.  found holds the argument and answer the string     *)
(* returned.                                                               *)
(***************************************************************************)
\* the file at filepath: a text, a file that cannot be opened, or no file
InitRead ==
    /\ corpusFile \in
           {[st |-> "ok", text |-> t] : t \in StringsUpTo(MaxTextLen)}
               \cup {CorpusUnreadable, CorpusMissing}
    /\ database = <<>>
    /\ pattern = <<>>
    /\ found = <<>>
    /\ answer = <<>>
    /\ cfgFile = [st |-> "ok", opts |-> EmptyDict]
    /\ configs = read_config(cfgFile.opts)
    /\ is_running = FALSE
    /\ server_socket = "open"
    /\ acceptPc = "created"
    /\ cur = 0
    /\ fh = <<>>
    /\ lines = <<>>
    /\ conns = <<>>
    /\ iter = IterIdle
    /\ tls = FALSE
    /\ certs = NoCerts
    /\ exit = "none"
    /\ sslLog = <<>>
    /\ stopCalls = <<>>
    /\ max_conn = 5
    /\ listener = NoListener
    /\ stopThread = StopIdle

\* read_file(filepath, n) of a file that exists and stays as it is during
\* the call.  iter.src records the file os.path.isfile looked at
RunReadFile(n) ==
    /\ found = <<>>
    /\ corpusFile.st # "missing"
    /\ found' = <<n>>
    /\ answer' = read_file_lines(corpusFile, n)
    /\ iter' = [iter EXCEPT !.src = corpusFile]
    /\ UNCHANGED <<database, pattern, configs, is_running, server_socket,
                   cfgFile, corpusFile, acceptPc, cur, fh, lines, conns,
                   lifeVars>>

\* read_file(filepath)
RunReadFileDefault ==
    /\ found = <<>>
    /\ corpusFile.st # "missing"
    /\ found' = <<max_lines>>
    /\ answer' = read_file(corpusFile)
    /\ iter' = [iter EXCEPT !.src = corpusFile]
    /\ UNCHANGED <<database, pattern, configs, is_running, server_socket,
                   cfgFile, corpusFile, acceptPc, cur, fh, lines, conns,
                   lifeVars>>

\* read_file(filepath, n): os.path.isfile is false, FileNotFoundError is
\* raised
RunReadFileMissing(n) ==
    /\ found = <<>>
    /\ corpusFile.st = "missing"
    /\ found' = <<n>>
    /\ exit' = "FileNotFoundError"
    /\ iter' = [iter EXCEPT !.src = corpusFile]
    /\ UNCHANGED <<database, pattern, answer, configs, is_running,
                   server_socket, cfgFile, corpusFile, acceptPc, cur, fh,
                   lines, conns, tls, certs, sslLog, stopCalls, max_conn,
                   listener, stopThread>>

\* a mistaken read_file without the except clause: the error of open
\* reaches the caller
RunReadFileChangedRaises(n, s) ==
    /\ found = <<>>
    /\ corpusFile.st # "missing"
    /\ s # corpusFile
    /\ found' = <<n>>
    /\ corpusFile' = s
    /\ answer' = IF s.st = "ok" THEN read_file_lines(s, n) ELSE <<>>
    /\ exit' = CASE s.st = "missing" -> "FileNotFoundError"
                 [] s.st = "unreadable" -> "PermissionError"
                 [] OTHER -> exit
    /\ iter' = [iter EXCEPT !.src = corpusFile]
    /\ UNCHANGED <<database, pattern, configs, is_running, server_socket,
                   cfgFile, acceptPc, cur, fh, lines, conns, tls, certs,
                   sslLog, stopCalls, max_conn, listener, stopThread>>

\* read_file(filepath, n) of a file that os.path.isfile finds and that
\* becomes s before open: open of a file that has gone or cannot be opened
\* raises, except Exception: return ""
RunReadFileChanged(n, s) ==
    /\ found = <<>>
    /\ corpusFile.st # "missing"
    /\ s # corpusFile
    /\ found' = <<n>>
    /\ corpusFile' = s
    /\ answer' = IF s.st = "ok" THEN read_file_lines(s, n) ELSE <<>>
    /\ iter' = [iter EXCEPT !.src = corpusFile]
    /\ UNCHANGED <<database, pattern, configs, is_running, server_socket,
                   cfgFile, acceptPc, cur, fh, lines, conns, lifeVars>>

NextRead ==
    \/ \E n \in 1..MaxHint : RunReadFile(n)
    \/ RunReadFileDefault
    \/ \E n \in 1..MaxHint : RunReadFileMissing(n)
    \/ \E n \in 1..MaxHint :
           \E s \in {[st |-> "ok", text |-> <<97, NL, 98>>],
                     CorpusUnreadable, CorpusMissing} :
               RunReadFileChanged(n, s)

SpecRead == InitRead /\ [][NextRead]_vars

(***************************************************************************)
(* The Config specification: Config.__init__ and read_config applied to    *)
(* the options of a configuration file.  found holds the name of the       *)
(* function that was applied and configs the object it returned.           *)
(***************************************************************************)
\* the options are a dict over some of the keys host, port, certfile,
\* extra and custom_param1, which is no field, with the values "h" and "8080"
InitConfig ==
    /\ cfgFile \in
           {[st |-> "ok", opts |-> o] :
               o \in UNION {[K -> {<<104>>, TxtPort}] :
                               K \in SUBSET {"host", "port", "certfile",
                                             "extra", "custom_param1"}}}
    /\ configs = Config(EmptyDict)
    /\ corpusFile = [st |-> "ok", text |-> <<>>]
    /\ database = <<>>
    /\ pattern = <<>>
    /\ found = <<>>
    /\ answer = <<>>
    /\ is_running = FALSE
    /\ server_socket = "none"
    /\ acceptPc = "new"
    /\ cur = 0
    /\ fh = <<>>
    /\ lines = <<>>
    /\ conns = <<>>
    /\ iter = IterIdle
    /\ tls = FALSE
    /\ certs = NoCerts
    /\ exit = "none"
    /\ sslLog = <<>>
    /\ stopCalls = <<>>
    /\ max_conn = 5
    /\ listener = NoListener
    /\ stopThread = StopIdle

\* config = Config(**defaults)
RunConfig ==
    /\ found = <<>>
    /\ found' = <<"Config">>
    /\ configs' = Config(cfgFile.opts)
    /\ UNCHANGED <<database, pattern, answer, is_running, server_socket,
                   cfgFile, corpusFile, acceptPc, cur, fh, lines, conns,
                   iter, lifeVars>>

\* read_config(config_path)
RunReadConfig ==
    /\ found = <<>>
    /\ found' = <<"read_config">>
    /\ configs' = read_config(cfgFile.opts)
    /\ UNCHANGED <<database, pattern, answer, is_running, server_socket,
                   cfgFile, corpusFile, acceptPc, cur, fh, lines, conns,
                   iter, lifeVars>>

NextConfig ==
    \/ RunConfig
    \/ RunReadConfig

SpecConfig == InitConfig /\ [][NextConfig]_vars

(***************************************************************************)
(* Properties.                                                             *)
(***************************************************************************)
IsPrefix(s, t) == Len(s) <= Len(t) /\ s = SubSeq(t, 1, Len(s))

\* the worker of connection c has searched
Searched(c) == Len(conns[c].events) >= 2

\* the query "b"
QueryB == <<98>>
\* the corpus texts "a" and "a\nb"
TextA == <<97>>
TextAB == <<97, NL, 98>>

\* the texts of a boolean option the documentation gives as true:
\* "yes", "true", "on", "1", in any case
DocTrueTexts == {<<121, 101, 115>>, <<116, 114, 117, 101>>, <<111, 110>>,
                 <<49>>}
DocTrue(opts) ==
    /\ "reread_on_query" \in DOMAIN opts
    /\ lower(opts["reread_on_query"]) \in DocTrueTexts

\* what read_file can return for the corpus file
CompleteLoads == {read_file(f) : f \in CorpusStates \ {CorpusMissing}}

\* C1: Server.search(q) with database C returns "STRING EXISTS" if and only
\* if q equals a whole line of C split on "\n", and "STRING NOT FOUND"
\* otherwise.
C1_ExactLine ==
    answer # <<>> =>
        /\ answer \in {StringExists, StringNotFound}
        /\ answer = StringExists <=>
               \E i \in DOMAIN split(database) : split(database)[i] = pattern

\* C2: native_search, regex_search, rabin_karp_search, kmp_search and
\* aho_corasick_search return the same boolean for every corpus and query.
C2_AllAgree ==
    Len(found) = 5 => \A i, j \in 1..5 : found[i] = found[j]

\* C3: on every connection the worker's socket events are a prefix of recv,
\* search, send; at most one response is sent, only after the search, and
\* its bytes are exactly "STRING EXISTS" or "STRING NOT FOUND".
C3_WorkerOrder ==
    \A c \in DOMAIN conns :
        /\ IsPrefix(conns[c].events, <<"recv", "search", "send">>)
        /\ Len(conns[c].sent) <= 1
        /\ conns[c].sent # <<>> =>
               /\ conns[c].events = <<"recv", "search", "send">>
               /\ conns[c].sent[1] \in {StringExists, StringNotFound}
               /\ conns[c].sent[1] = search(conns[c].searched,
                                            conns[c].request_data)

C3_Witness ==
    \E c, d \in DOMAIN conns :
        /\ conns[c].sent = <<StringExists>>
        /\ conns[d].sent = <<StringNotFound>>

\* C4: while the configuration file parsed for a connection has
\* reread_on_query false, the accept loop leaves the database unchanged and
\* does not open the corpus file, so a change of the file after startup is
\* not reflected in a response.
C4_NoReload ==
    [][(cur # 0 /\ iter.parsed /\ ~DocTrue(iter.opts)) =>
           (database' = database /\ iter'.load = "no" /\ fh' = fh)]_vars

\* C5: when the configuration parsed for an accepted connection has
\* reread_on_query true, the corpus is reloaded from linuxpath before the
\* worker of that connection is started; the flag that decides is the one
\* parsed on that same connection.
C5_ReloadBeforeStart ==
    (acceptPc = "start" /\ iter.parsed) =>
        /\ iter.load = "done" <=> Truthy(Config(iter.opts).reread_on_query)
        /\ DocTrue(iter.opts) =>
               (iter.load = "done" /\ database = read_file(iter.src))

C5_Witness ==
    /\ acceptPc = "start"
    /\ iter.parsed
    /\ DocTrue(iter.opts)
    /\ iter.src = [st |-> "ok", text |-> TextAB]
    /\ database = TextAB
    /\ \E c \in DOMAIN conns :
           /\ conns[c].request_data = QueryB
           /\ conns[c].searched = TextA
           /\ conns[c].sent = <<StringNotFound>>

\* C6: the text a worker searches is always the complete result of one
\* load, never a prefix of a load in progress or a mixture of two loads.
C6_NoTornRead ==
    \A c \in DOMAIN conns : Searched(c) => conns[c].searched \in CompleteLoads

C6_Witness ==
    /\ acceptPc = "load_read"
    /\ lines # <<>>
    /\ fh # <<>>
    /\ join(lines) \notin CompleteLoads
    /\ \E c \in DOMAIN conns : conns[c].pc = "send"

\* C7: with an unchanging corpus file, every connection handled concurrently
\* with others gets the response it gets when handled alone: the search of
\* its request in the content of the corpus file.
C7_Isolation ==
    \A c \in DOMAIN conns :
        /\ Searched(c) =>
               conns[c].response = search(read_file(corpusFile),
                                          conns[c].request_data)
        /\ conns[c].sent # <<>> =>
               conns[c].sent = <<utf8_encode(search(read_file(corpusFile),
                                                    conns[c].request_data))>>

C7_Witness ==
    /\ Len(conns) >= 2
    /\ conns[1].pc = "send"
    /\ conns[2].pc = "send"
    /\ conns[1].response = StringExists
    /\ conns[2].response = StringExists

\* C8: a query that contains a newline never matches: the server answers
\* "STRING NOT FOUND".
C8_NewlineNeverMatches ==
    (answer # <<>> /\ \E i \in DOMAIN pattern : pattern[i] = NL) =>
        answer = StringNotFound

\* C9: the empty query is answered "STRING NOT FOUND" against the empty
\* corpus, and against a non-empty corpus "STRING EXISTS" exactly when the
\* corpus has an empty line.
C9_EmptyQuery ==
    (answer # <<>> /\ pattern = <<>>) =>
        IF database = <<>>
        THEN answer = StringNotFound
        ELSE answer = StringExists <=>
                 \E i \in DOMAIN split(database) : split(database)[i] = <<>>

\* C10: when the received payload is not valid UTF-8, the worker sends
\* "STRING NOT FOUND" to the client.
C10_DecodeErrorReply ==
    \A c \in DOMAIN conns :
        (conns[c].pc = "done" /\ conns[c].err = "decode") =>
            conns[c].sent = <<utf8_encode(StringNotFound)>>

\* C11: once the worker has handled a connection and sent the response, it
\* has called close on the client socket exactly once, after the send.
C11_ClosedAfterSend ==
    \A c \in DOMAIN conns :
        (conns[c].pc = "done" /\ conns[c].err = "none") =>
            conns[c].events = <<"recv", "search", "send", "close">>

\* what _handle_client sends for payload p against database db: nothing
\* when the decode fails
Reply(db, p) ==
    IF request_of(p).ok
    THEN <<utf8_encode(search(db, request_of(p).str))>>
    ELSE <<>>

\* the first max_payload bytes of payload p
FirstBytes(p) ==
    [i \in 1..(IF Len(p) < max_payload THEN Len(p) ELSE max_payload) |-> p[i]]

\* q is p followed by NUL bytes
NulPadded(p, q) ==
    /\ Len(q) >= Len(p)
    /\ \A i \in 1..Len(q) : q[i] = IF i <= Len(p) THEN p[i] ELSE NUL

\* the worker has handled the payload
WireHandled == found # <<>> /\ (found[1].ok => answer # <<>>)

\* C12: the query is derived from one recv of at most 1024 bytes with the
\* trailing NUL bytes removed: the request has at most 1024 bytes and no
\* trailing NUL, a payload with the same first 1024 bytes gets the same
\* response, and so does the payload followed by NUL bytes.
C12_SingleRecv ==
    WireHandled =>
        /\ found[1].ok =>
               /\ Len(found[1].str) <= max_payload
               /\ found[1].str = <<>> \/ found[1].str[Len(found[1].str)] # NUL
        /\ \A q \in WirePayloads :
               FirstBytes(q) = FirstBytes(pattern) =>
                   Reply(database, q) = answer
        /\ \A q \in WirePayloads :
               NulPadded(pattern, q) => Reply(database, q) = answer

\* the payload is Pad, NUL, "b": the byte after the first 1024 is dropped,
\* the NUL is stripped and the request matches the line Pad
C12_Witness ==
    /\ pattern = Pad \o <<NUL, 98>>
    /\ database = Pad
    /\ answer = <<utf8_encode(StringExists)>>

\* the configuration file gives option f a text the documentation reads
\* as true
FileTrue(f) ==
    /\ f \in DOMAIN cfgFile.opts
    /\ lower(cfgFile.opts[f]) \in DocTrueTexts

\* C13: after read_config the typed fields are converted from their text:
\* ssl and reread_on_query are the boolean that is true exactly when the
\* text is "yes", "true", "on" or "1" in any case, and port is the integer
\* the text denotes.
C13_TypedFields ==
    (acceptPc \notin {"new", "failed"}) =>
        \A f \in DOMAIN cfgFile.opts :
            configs[f] = IF f = "port"
                         THEN FromInt(int_of(cfgFile.opts[f]))
                         ELSE FromBool(FileTrue(f))

\* C14: the listening socket is wrapped in TLS if and only if the
\* configuration file has ssl true; with ssl false or absent the
\* construction does not call load_ssl, looks at no certificate file and
\* generates none, and the socket is plain.
C14_TlsIffSsl ==
    /\ server_socket = "listening" => (tls <=> FileTrue("ssl"))
    /\ ~FileTrue("ssl") => (sslLog = <<>> /\ ~tls)

\* C15: when the configuration file has ssl true and TLS cannot be set up
\* (the certificates cannot be generated, or wrapping the socket fails),
\* the server never listens on the socket that is not wrapped.
C15_NoPlaintextWhenSsl ==
    (FileTrue("ssl") /\ ~tls) => server_socket # "listening"

\* C16: when bind or listen fails in connect(), the process exits with a
\* status that is not zero, is_running stays false and the accept loop is
\* not entered.
C16_BindFailureFatal ==
    (acceptPc = "exited" /\ exit # "none") =>
        (exit # "0" /\ ~is_running /\ conns = <<>>)

\* the worker of connection c fails in this step
WorkerFails(c) ==
    /\ c \in DOMAIN conns
    /\ conns[c].err = "none"
    /\ conns'[c].err # "none"

\* accept fails with ssl.SSLError in this step
SslAcceptFails ==
    /\ acceptPc = "accept"
    /\ server_socket = "listening"
    /\ tls
    /\ acceptPc' = "loop"

\* what a failure of one connection leaves alone
ListenerUntouched ==
    /\ is_running' = is_running
    /\ server_socket' = server_socket
    /\ configs' = configs
    /\ database' = database
    /\ exit' = exit

\* C17: a failure of one connection does not stop the listener: an SSL
\* error while accepting, or an exception in a worker, leaves is_running,
\* the configuration, the corpus and the other workers as they are, and the
\* accept loop goes on with the next connection.
C17_FailureScoped ==
    [][/\ SslAcceptFails => (ListenerUntouched /\ conns' = conns)
       /\ \A c \in 1..MaxConns :
              WorkerFails(c) =>
                  /\ ListenerUntouched
                  /\ acceptPc' = acceptPc
                  /\ \A d \in DOMAIN conns \ {c} : conns'[d] = conns[d]]_vars

\* on the wrapped socket, the worker of the first connection failed to
\* send, the server is running and the second connection got its response
C17_Witness ==
    /\ tls
    /\ is_running
    /\ Len(conns) = 2
    /\ conns[1].err = "send"
    /\ conns[2].sent = <<utf8_encode(StringExists)>>

\* C18: stop() sets is_running false and calls shutdown and then close on
\* the listening socket, each once, whatever state the socket is in (never
\* connected, listening, already closed): a step that changes what stop()
\* sets is a call of stop() and ends in the stopped state, without touching
\* the thread of the accept loop.
C18_StopIdempotent ==
    [][(\/ stopCalls' # stopCalls
        \/ server_socket # "closed" /\ server_socket' = "closed"
        \/ is_running /\ ~is_running') =>
           /\ is_running' = FALSE
           /\ server_socket' = "closed"
           /\ stopCalls' = <<"shutdown", "close">>
           /\ acceptPc' = acceptPc
           /\ exit' = exit]_vars

\* stop() was called on the server that never connected
C18_Witness ==
    /\ acceptPc = "created"
    /\ stopCalls = <<"shutdown", "close">>
    /\ server_socket = "closed"
    /\ ~is_running

\* the workers started and not finished
ActiveWorkers ==
    {c \in DOMAIN conns : conns[c].pc \in {"recv", "search", "send"}}

\* C19: max_conn is the maximum number of concurrent connections: the
\* number of workers started and not finished is at most max_conn.
C19_MaxConcurrent == Cardinality(ActiveWorkers) <= max_conn

\* the lines of a text, each with its newline
AllLines(text) == readlines(text, <<>>, 0)

\* C20: read_file(path, max_lines) returns the first min(max_lines, number
\* of lines) lines of the file, concatenated; a file with at most max_lines
\* lines is returned in full, whatever the lengths of its lines.
C20_FirstLines ==
    (found # <<>> /\ corpusFile.st = "ok") =>
        LET ls == AllLines(corpusFile.text)
            k == IF found[1] < Len(ls) THEN found[1] ELSE Len(ls)
        IN  answer = join(SubSeq(ls, 1, k))


\* C21: read_file raises FileNotFoundError exactly when the path is no
\* existing file when it is called; when the file exists at the call and
\* opening or reading it fails, read_file returns the empty string and
\* raises nothing.
C21_RaisesOnlyMissing ==
    found # <<>> =>
        /\ exit \in {"none", "FileNotFoundError"}
        /\ exit = "FileNotFoundError" <=> iter.src.st = "missing"
        /\ (iter.src.st # "missing" /\ corpusFile.st # "ok") =>
               (answer = <<>> /\ exit = "none")

\* the file held "a" when read_file was called and was gone when it was
\* opened
C21_Witness ==
    /\ found # <<>>
    /\ iter.src = [st |-> "ok", text |-> <<97>>]
    /\ corpusFile = CorpusMissing
    /\ answer = <<>>
    /\ exit = "none"


\* the fields a key of the options sets: every field but extra, which
\* holds the other keys
ValueFields == DOMAIN FieldType \ {"extra"}

\* the key k of the options is kept: the field of that name has its value,
\* or extra has the key with its value
KeyKept(k) ==
    IF k \in ValueFields
    THEN configs[k] = FromStr(cfgFile.opts[k])
    ELSE k \in DOMAIN configs.extra /\ configs.extra[k] = cfgFile.opts[k]

\* the defaults of the documentation
DocDefault == [host |-> FromStr(TxtHost), port |-> FromInt(8080),
               ssl |-> FromBool(FALSE), certfile |-> FromStr(TxtCertfile),
               keyfile |-> FromStr(TxtKeyfile),
               reread_on_query |-> FromBool(FALSE)]

\* C22: Config keeps every key it is given: a key that names a field sets
\* the field, every other key is in extra with its value, a field that is
\* not given has its default, and extra is empty when only fields are
\* given.
C22_KeepsEveryKey ==
    found = <<"Config">> =>
        /\ \A k \in DOMAIN cfgFile.opts : KeyKept(k)
        /\ \A f \in DOMAIN DocDefault \ DOMAIN cfgFile.opts :
               configs[f] = DocDefault[f]
        /\ DOMAIN cfgFile.opts \subseteq ValueFields =>
               DOMAIN configs.extra = {}


\* C23: each worker searches the database that was current when its
\* connection was dispatched, also when a connection accepted later
\* replaces the database before the worker searches.
C23_SearchesDispatchSnapshot ==
    \A c \in DOMAIN conns :
        ("snapshot" \in DOMAIN conns[c] /\ Searched(c)) =>
            conns[c].searched = conns[c].snapshot


\* C24: every accepted connection is dispatched to a worker: once the
\* accept loop has finished the iteration of a connection, its worker has
\* been started, also when the re-parse of the configuration or the reload
\* of the corpus failed in that iteration.
C24_AlwaysDispatched ==
    \A c \in DOMAIN conns :
        c # cur => conns[c].pc \in {"recv", "search", "send", "done"}


\* read_config fails in this step of the accept loop
ReparseFails ==
    /\ acceptPc = "read_config"
    /\ cfgFile.st # "ok"
    /\ acceptPc' # acceptPc

\* read_file finds no corpus file in this step of the accept loop
ReloadFindsNoFile ==
    /\ acceptPc = "load_open"
    /\ corpusFile.st = "missing"
    /\ acceptPc' # acceptPc

\* C25: a failure during hot-reload is not fatal and leaves the previous
\* state in place: a failed re-parse of the configuration keeps the
\* previous configuration and the previous corpus, a corpus file missing
\* at the reload keeps the previous corpus, and in both cases is_running is
\* as it was and the accept loop goes on to its next iteration.
C25_ReloadFailureKeepsState ==
    [][/\ ReparseFails =>
              /\ configs' = configs
              /\ database' = database
              /\ is_running' = is_running
              /\ server_socket' = server_socket
              /\ acceptPc' = "loop"
       /\ ReloadFindsNoFile =>
              /\ database' = database
              /\ is_running' = is_running
              /\ server_socket' = server_socket
              /\ acceptPc' = "loop"]_vars

\* the first connection was dropped by a failed reload; the server is
\* running with the corpus it had loaded, though the corpus file is gone,
\* and has answered the search of the second connection from it
C25_Witness ==
    /\ Len(conns) = 2
    /\ conns[1].pc = "dropped"
    /\ conns[2].pc = "send"
    /\ conns[2].response = StringExists
    /\ cfgFile.st = "ok"
    /\ corpusFile = CorpusMissing
    /\ is_running
    /\ database = TextAB


\* a stop() that began while the thread of connect() was in the accept
\* loop, between two iterations or in accept()
StopCalledInLoop == stopThread.at \in {"loop", "accept"}

\* that stop() has returned
StopReturned == stopThread.pc = "idle" /\ StopCalledInLoop

\* accept() returns a connection in this step
Accepts == Len(conns') > Len(conns)

\* a worker is started in this step
Dispatches ==
    \E c \in DOMAIN conns : conns[c].pc = "pending" /\ conns'[c].pc = "recv"

\* C26: after stop() is called while the accept loop is running (blocked
\* in accept or between iterations), the accept loop eventually exits
\* under fair scheduling, and no connection is accepted or dispatched after
\* stop() has completed.
C26_NoDispatchAfterStop ==
    /\ [][StopReturned => (~Accepts /\ ~Dispatches)]_vars
    /\ StopCalledInLoop ~> acceptPc = "exited"

\* C26, amended: after stop() is called while the accept loop is running,
\* the accept loop eventually exits under fair scheduling, and no
\* connection is accepted after stop() has completed; a connection that
\* was accepted before stop() completed can be dispatched after it.
C26_NoAcceptAfterStop ==
    /\ [][StopReturned => ~Accepts]_vars
    /\ StopCalledInLoop ~> acceptPc = "exited"

\* stop() was called when the accept loop had accepted no connection and
\* was in accept(); a connection was accepted before stop() closed the
\* socket and has got its response, and the accept loop has exited
C26_Witness ==
    /\ StopReturned
    /\ stopThread.at = "accept"
    /\ stopThread.seen = 0
    /\ Len(conns) = 1
    /\ conns[1].sent = <<StringExists>>
    /\ acceptPc = "exited"


\* where the thread of connect() is once it has entered the accept loop
LoopPcs == {"loop", "accept", "read_config", "load_open", "load_read",
            "start"}

\* C27: the lifecycle is created, bound, accepting, stopping, closed:
\* is_running is false after construction; connect() binds to (host,
\* port), then listens with backlog max_conn, and only then sets
\* is_running and enters the accept loop; once stop() has run the server
\* never is in the accepting state again, also when connect() is called
\* again.
C27_Lifecycle ==
    /\ acceptPc \in {"created", "bound", "listened"} => ~is_running
    /\ acceptPc = "listened" => server_socket \in {"listening", "closed"}
    /\ (is_running \/ acceptPc \in LoopPcs) =>
           listener = [host |-> configs.host.text,
                       port |-> configs.port.num, backlog |-> max_conn]
    /\ server_socket = "closed" => ~is_running


\* __init__ has made the call named x while it set up TLS
InSslLog(x) == \E i \in DOMAIN sslLog : sslLog[i] = x

\* C28: with ssl enabled, the configured certfile and keyfile are used as
\* they are only when both exist; when either is missing, load_ssl gets a
\* self-signed pair from generate_certs and sets configs.certfile and
\* configs.keyfile to the generated paths before it wraps the socket.
C28_GeneratesWhenEitherMissing ==
    acceptPc = "wrap" =>
        IF InSslLog("generate_certs")
        THEN /\ configs.certfile = FromStr(GenCertfile)
             /\ configs.keyfile = FromStr(GenKeyfile)
        ELSE /\ certs.certfile /\ certs.keyfile
             /\ configs.certfile = read_config(cfgFile.opts).certfile
             /\ configs.keyfile = read_config(cfgFile.opts).keyfile


\* a step of stop()
StopSteps == stopThread' # stopThread \/ stopCalls' # stopCalls

\* the worker of connection c has made its three calls and sent the
\* response to the request it received
Completed(c) ==
    /\ c \in DOMAIN conns
    /\ conns[c].pc = "done"
    /\ conns[c].events = <<"recv", "search", "send">>
    /\ conns[c].sent = <<utf8_encode(search(conns[c].searched,
                                            conns[c].request_data))>>

\* C29: workers in flight when stop() is called are allowed to finish:
\* stop() closes the listening socket only and leaves every connection as
\* it is, and a worker that had been started when stop() was called, and
\* whose request decodes, still completes its recv, search and send.
C29_InFlightFinish ==
    /\ [][StopSteps => conns' = conns]_vars
    /\ \A c \in 1..MaxConns :
           (/\ c \in stopThread.inflight
            /\ request_of(conns[c].payload).ok) ~> Completed(c)

\* the worker of the first connection had not received its request when
\* stop() was called; stop() has closed the listening socket, the accept
\* loop has exited and the worker has sent its response
C29_Witness ==
    /\ stopThread.pc = "idle"
    /\ 1 \in stopThread.inflight
    /\ server_socket = "closed"
    /\ acceptPc = "exited"
    /\ Completed(1)
    /\ conns[1].sent = <<StringExists>>


\* the accept loop re-reads the configuration file in this step
Rereads ==
    /\ acceptPc = "read_config"
    /\ acceptPc' # acceptPc
    /\ cfgFile.st = "ok"

\* C30: the re-read of the configuration for a connection replaces
\* self.configs by the fresh parse of the file and leaves the listening
\* socket alone: the address and port it is bound to and its TLS wrapping
\* stay what construction and connect() made them, also when host, port,
\* ssl, certfile or keyfile of the file differ from what the listener was
\* started with, a port given to the constructor included.
C30_RereadLeavesListener ==
    [][Rereads =>
           /\ configs' = read_config(cfgFile.opts)
           /\ listener' = listener
           /\ server_socket' = server_socket
           /\ tls' = tls
           /\ certs' = certs
           /\ sslLog' = sslLog]_vars

\* the server was started with port 9090 on the default host, without
\* TLS; the file it has re-read sets all five options, configs has them,
\* and the socket listens where it did
C30_Witness ==
    /\ acceptPc = "start"
    /\ server_socket = "listening"
    /\ listener = [host |-> TxtHost, port |-> 9090, backlog |-> max_conn]
    /\ ~tls
    /\ configs.host = FromStr(AllFive.host)
    /\ configs.port = FromStr(TxtPort)
    /\ configs.ssl = FromStr(TxtTrue)
    /\ configs.certfile = FromStr(AllFive.certfile)
    /\ configs.keyfile = FromStr(AllFive.keyfile)

====
